---- MODULE Spec2Model ----
(***************************************************************************)
(* The team-creation wizard of Bot/Teams/create_team.py: the conversation  *)
(* engine (_collect_team_data, _ask_question, _confirm, _review_answers),  *)
(* the field resolvers (_prompt_role, ...), the finalizer (_finalize_team)  *)
(* and the                                                                 *)
(* guild and store they act on.                                            *)
(*                                                                         *)
(* Text is a sequence of one-character strings, so that strip(), lower(),  *)
(* isdigit(), int() and re.split() are computed and not assumed.           *)
(* Optional[T] is a sequence of length at most one: <<>> is None.          *)
(***************************************************************************)
EXTENDS Integers, Sequences, FiniteSets, TLC

\* ------------------------------------------------------------------ bounds

\* Guild members are 1..NumMembers.
NumMembers == 2
\* Operators who may run the command concurrently.
NumOperators == 2
\* Longest mention list and token list of a member-group message (SpecGroup).
MaxMentions == 2
MaxTokens == 3

Members == 1..NumMembers
Operators == 1..NumOperators

\* ------------------------------------------------------------------- text

None == <<>>
Some(v) == <<v>>

UpperToLower ==
    ("A" :> "a") @@ ("B" :> "b") @@ ("C" :> "c") @@ ("D" :> "d") @@ ("E" :> "e")
    @@ ("F" :> "f") @@ ("G" :> "g") @@ ("H" :> "h") @@ ("I" :> "i") @@ ("J" :> "j")
    @@ ("K" :> "k") @@ ("L" :> "l") @@ ("M" :> "m") @@ ("N" :> "n") @@ ("O" :> "o")
    @@ ("P" :> "p") @@ ("Q" :> "q") @@ ("R" :> "r") @@ ("S" :> "s") @@ ("T" :> "t")
    @@ ("U" :> "u") @@ ("V" :> "v") @@ ("W" :> "w") @@ ("X" :> "x") @@ ("Y" :> "y")
    @@ ("Z" :> "z")

LowerChar(c) == IF c \in DOMAIN UpperToLower THEN UpperToLower[c] ELSE c

\* str.lower()
Lower(s) == [i \in 1..Len(s) |-> LowerChar(s[i])]

SetMin(S) == CHOOSE x \in S : \A y \in S : x <= y
SetMax(S) == CHOOSE x \in S : \A y \in S : x >= y

\* str.strip()
Strip(s) ==
    LET keep == {i \in 1..Len(s) : s[i] # " "}
    IN  IF keep = {} THEN <<>> ELSE SubSeq(s, SetMin(keep), SetMax(keep))

DecimalValue ==
    ("0" :> 0) @@ ("1" :> 1) @@ ("2" :> 2) @@ ("3" :> 3) @@ ("4" :> 4)
    @@ ("5" :> 5) @@ ("6" :> 6) @@ ("7" :> 7) @@ ("8" :> 8) @@ ("9" :> 9)

\* Characters str.isdigit() accepts: the decimal digits and digits such as the
\* superscript two, which int() rejects.
DigitChars == DOMAIN DecimalValue \cup {"^2"}

\* str.isdigit()
IsDigit(s) == Len(s) > 0 /\ \A i \in 1..Len(s) : s[i] \in DigitChars

\* int(s) raises ValueError
IntRaises(s) == \E i \in 1..Len(s) : s[i] \notin DOMAIN DecimalValue

RECURSIVE IntOf(_)
\* int(s), for s of decimal digits
IntOf(s) ==
    IF s = <<>> THEN 0
    ELSE 10 * IntOf(SubSeq(s, 1, Len(s) - 1)) + DecimalValue[s[Len(s)]]

IsSep(c) == c \in {" ", ","}

RECURSIVE Tokens(_)
\* [tok for tok in re.split(r"[\s,]+", s) if tok]
Tokens(s) ==
    IF s = <<>> THEN <<>>
    ELSE IF IsSep(s[1]) THEN Tokens(Tail(s))
    ELSE LET seps == {i \in 1..Len(s) : IsSep(s[i])}
             stop == IF seps = {} THEN Len(s) + 1 ELSE SetMin(seps)
         IN  <<SubSeq(s, 1, stop - 1)>> \o Tokens(SubSeq(s, stop, Len(s)))

EXIT_KEYWORDS == {<<"e", "x", "i", "t">>, <<"(", "e", "x", "i", "t", ")">>}

\* create_team._should_exit
ShouldExit(content) == Lower(Strip(content)) \in EXIT_KEYWORDS

NA_KEYWORDS == {<<"n", "/", "a">>, <<"n", "a">>}
YES_KEYWORDS == {<<"y", "e", "s">>, <<"y">>}
NO_KEYWORDS == {<<"n", "o">>, <<"n">>}

\* ------------------------------------------------------------------ guild

\* The guild directory the resolvers look entities up in. Ids are the platform's
\* numeric ids; next is the id the platform gives the next created entity.
Ids == [role |-> 3, category |-> 5, text |-> 6, voice |-> 7, unknown |-> 9]
\* The platform's ids are unique; created entities draw theirs from here.
FreshIds == [role |-> 20, category |-> 30, channel |-> 40]

InitGuild ==
    [roles      |-> {[id |-> Ids.role, name |-> <<"r">>]},
     categories |-> {[id |-> Ids.category, name |-> <<"M">>]},
     channels   |-> {[id |-> Ids.text, name |-> <<"c">>, kind |-> "text",
                      category |-> Ids.category],
                     [id |-> Ids.voice, name |-> <<"v">>, kind |-> "voice",
                      category |-> Ids.category]},
     next       |-> FreshIds]

\* guild.get_member answers from the cache; the other members need fetch_member.
CachedMembers == {1}

\* What the platform answers to one reply's remote calls: create is the outcome
\* of guild.create_role / create_category / create_text_channel, httpFail the
\* member ids for which guild.fetch_member raises HTTPException.
CreateOutcomes == {"ok", "forbidden", "http"}
Envs == [create : CreateOutcomes, httpFail : SUBSET {NumMembers, Ids.unknown}]

\* guild.get_member(id), then guild.fetch_member(id)
ResolveMember(id, e) ==
    IF id \in CachedMembers THEN [t |-> "ok", member |-> id]
    ELSE IF id \in e.httpFail THEN [t |-> "http", member |-> 0]
    ELSE IF id \in Members THEN [t |-> "ok", member |-> id]
    ELSE [t |-> "none", member |-> 0]

\* A message of the operator: discord.Message content and resolved mentions.
Msg(c) == [content |-> c, mentions |-> <<>>, role_mentions |-> <<>>,
           channel_mentions |-> <<>>]
MentionMsg(ms) == [content |-> <<"@">>, mentions |-> ms, role_mentions |-> <<>>,
                   channel_mentions |-> <<>>]
RoleMentionMsg(id) == [content |-> <<"@">>, mentions |-> <<>>,
                       role_mentions |-> <<id>>, channel_mentions |-> <<>>]
ChannelMentionMsg(id) == [content |-> <<"#">>, mentions |-> <<>>,
                          role_mentions |-> <<>>, channel_mentions |-> <<id>>]

\* ------------------------------------------------------------------ draft

\* _collect_team_data asking for the category before the role
FieldOrderCategoryFirst ==
    <<"team_nick", "category", "role", "channel", "captain", "starters",
      "substitutes", "year", "semester", "seniority">>

FieldOrder == <<"team_nick", "role", "category", "channel", "captain", "starters",
                "substitutes", "year", "semester", "seniority">>
FieldIndex(f) == CHOOSE i \in 1..Len(FieldOrder) : FieldOrder[i] = f

\* TeamCreationData()
EmptyDraft ==
    [team_nick |-> None, role |-> None, category |-> None, channel |-> None,
     captain |-> None, starters |-> <<>>, substitutes |-> <<>>, year |-> None,
     semester |-> None, seniority |-> None]

Range(s) == {s[i] : i \in 1..Len(s)}

RECURSIVE DedupeMembers(_)
\* create_team._dedupe_members: first occurrences, in order
DedupeMembers(members) ==
    IF members = <<>> THEN <<>>
    ELSE LET init == DedupeMembers(SubSeq(members, 1, Len(members) - 1))
             last == members[Len(members)]
         IN  IF last \in Range(init) THEN init ELSE Append(init, last)

\* ------------------------------------------------------------ run records

NoPending == [kind |-> "none", id |-> 0, name |-> <<>>, members |-> <<>>]
NoSem == [exit |-> "none", view |-> "none", value |-> None]

\* One invocation of /create_team: where its coroutine is suspended (pc), the
\* field being asked (fld), whether the resolver was entered from the review
\* loop, the draft, what a pending yes/no confirmation is about, the semester
\* selector's tasks, whether the captain notice was sent, whether a cancellation
\* token was consumed by one of the run's waits, at which plain wait the reply
\* timeout elapsed, and how the run ended.
IdleRun ==
    [pc |-> "idle", fld |-> "team_nick", inReview |-> FALSE, draft |-> EmptyDraft,
     pending |-> NoPending, sem |-> NoSem, notice |-> FALSE, gotExit |-> FALSE,
     timedOut |-> "none", outcome |-> "none"]

Result(r, g) == [run |-> r, guild |-> g]

\* A run that goes back into _finalize_team when the transaction failed
EndRunRetry(r, how) ==
    IF how \in {"failed", "blocked_insert"} THEN [r EXCEPT !.pc = "finalize"]
    ELSE [r EXCEPT !.pc = "done", !.outcome = how, !.draft = EmptyDraft,
                   !.pending = NoPending, !.sem = NoSem, !.inReview = FALSE,
                   !.fld = "team_nick"]

\* The run ends: the draft and the resolver's locals go out of scope.
EndRun(r, how) ==
    [r EXCEPT !.pc = "done", !.outcome = how, !.draft = EmptyDraft,
              !.pending = NoPending, !.sem = NoSem, !.inReview = FALSE,
              !.fld = "team_nick"]

\* raise ConversationCancelled, caught at create_team.py:92
Cancel(r) == EndRun(r, "cancelled")

\* any other exception while collecting, caught at create_team.py:95
CollectFail(r) == EndRun(r, "collect_failed")

\* SemesterSelect(...) and the two tasks of _prompt_semester
StartSemester(r) ==
    [r EXCEPT !.pc = "semester", !.fld = "semester", !.pending = NoPending,
              !.sem = [exit |-> "pending", view |-> "pending", value |-> None]]

\* -------------------------------------------------------------- resolvers

\* What a parser does with one reply: raise ValidationError ("invalid"), raise
\* something else ("error"), return a value ("value"), or call _confirm.
Invalid == [t |-> "invalid"]
Error == [t |-> "error"]
Value(v) == [t |-> "value", v |-> v]
AskConfirm(kind, id, name, members) ==
    [t |-> "confirm",
     pending |-> [kind |-> kind, id |-> id, name |-> name, members |-> members]]

\* discord.utils.find(lambda r: r.name.lower() == name.lower(), entities)
FindByName(entities, name) == {x \in entities : Lower(x.name) = Lower(name)}
Pick(S) == CHOOSE y \in S : TRUE

\* _prompt_role.parser, up to its call of _confirm
ParseRole(content, m, g) ==
    IF m.role_mentions # <<>> THEN AskConfirm("use", m.role_mentions[1], <<>>, <<>>)
    ELSE LET role_name == Strip(content)
             existing == FindByName(g.roles, role_name)
         IN  IF role_name = <<>> THEN Invalid
             ELSE IF existing # {} THEN AskConfirm("use", Pick(existing).id, <<>>, <<>>)
             ELSE AskConfirm("create", 0, role_name, <<>>)

\* _prompt_category.parser, up to its call of _confirm
ParseCategory(content, m, g) ==
    LET cleaned == Strip(content)
        byId == IF IsDigit(cleaned)
                THEN {c \in g.categories : c.id = IntOf(cleaned)} ELSE {}
        target == IF byId # {} THEN byId ELSE FindByName(g.categories, cleaned)
    IN  IF IsDigit(cleaned) /\ IntRaises(cleaned) THEN Error
        ELSE IF target # {} THEN AskConfirm("use", Pick(target).id, <<>>, <<>>)
        ELSE AskConfirm("create", 0, cleaned, <<>>)

TextChannels(g) == {ch \in g.channels : ch.kind = "text"}

\* _prompt_channel.parser, up to its call of _confirm
ParseChannel(content, m, g) ==
    IF m.channel_mentions # <<>>
    THEN LET channel == {ch \in g.channels : ch.id = m.channel_mentions[1]}
         IN  IF channel # {} /\ Pick(channel).kind = "text"
             THEN AskConfirm("use", m.channel_mentions[1], <<>>, <<>>)
             ELSE Invalid
    ELSE LET cleaned == Strip(content)
             byId == IF IsDigit(cleaned)
                     THEN {ch \in TextChannels(g) : ch.id = IntOf(cleaned)} ELSE {}
             target == IF byId # {} THEN byId ELSE FindByName(TextChannels(g), cleaned)
         IN  IF IsDigit(cleaned) /\ IntRaises(cleaned) THEN Error
             ELSE IF target # {} THEN AskConfirm("use", Pick(target).id, <<>>, <<>>)
             ELSE AskConfirm("create", 0, cleaned, <<>>)

\* _prompt_member.parser, up to its call of _confirm
ParseMember(content, m, e) ==
    IF m.mentions # <<>> THEN AskConfirm("use", m.mentions[1], <<>>, <<>>)
    ELSE IF ~IsDigit(Strip(content)) THEN Invalid
    ELSE IF IntRaises(Strip(content)) THEN Error
    ELSE LET res == ResolveMember(IntOf(Strip(content)), e)
         IN  IF res.t = "ok" THEN AskConfirm("use", res.member, <<>>, <<>>)
             ELSE Invalid

\* add_member without its `seen` set
AddMemberUnseen(entries, member) ==
    IF member # 0 THEN Append(entries, member) ELSE entries

\* add_member of _prompt_member_group.parser; member 0 stands for None
AddMember(entries, member) ==
    IF member # 0 /\ member \notin Range(entries) THEN Append(entries, member)
    ELSE entries

RECURSIVE AddMentions(_, _)
\* for member in message.mentions: add_member(member)
AddMentions(entries, mentions) ==
    IF mentions = <<>> THEN entries
    ELSE AddMentions(AddMember(entries, mentions[1]), Tail(mentions))

RECURSIVE AddTokens(_, _, _)
\* for token in tokens: ... ; the result is the entries, or the exception raised
AddTokens(entries, tokens, e) ==
    IF tokens = <<>> THEN [t |-> "ok", entries |-> entries]
    ELSE IF ~IsDigit(tokens[1]) THEN AddTokens(entries, Tail(tokens), e)
    ELSE IF IntRaises(tokens[1]) THEN [t |-> "error", entries |-> entries]
    ELSE LET res == ResolveMember(IntOf(tokens[1]), e)
         IN  IF res.t = "http" THEN [t |-> "invalid", entries |-> entries]
             ELSE AddTokens(AddMember(entries, res.member), Tail(tokens), e)

\* The entries list of _prompt_member_group.parser (create_team.py:317-340)
GroupEntries(content, m, e) ==
    AddTokens(AddMentions(<<>>, m.mentions), Tokens(Strip(content)), e)

\* A member-group parser that returns an empty list instead of raising
ParseGroupAllowEmpty(content, m, e) ==
    LET res == GroupEntries(content, m, e)
    IN  IF res.t = "error" THEN Error
        ELSE IF res.t = "invalid" THEN Invalid
        ELSE IF res.entries = <<>> THEN Value(<<>>)
        ELSE AskConfirm("group", 0, <<>>, res.entries)

\* _prompt_member_group.parser, up to its call of _confirm
ParseGroup(content, m, e) ==
    LET res == GroupEntries(content, m, e)
    IN  IF res.t = "error" THEN Error
        ELSE IF res.t = "invalid" THEN Invalid
        ELSE IF res.entries = <<>> THEN Invalid
        ELSE AskConfirm("group", 0, <<>>, res.entries)

MinYear == 2000
MaxYear == 2100

\* _prompt_year.parser
ParseYear(content) ==
    IF ~IsDigit(content) THEN Invalid
    ELSE IF IntRaises(content) THEN Error
    ELSE IF IntOf(content) < MinYear \/ IntOf(content) > MaxYear THEN Invalid
    ELSE Value(Some(IntOf(content)))

\* _prompt_seniority.parser
ParseSeniority(content) ==
    IF ~IsDigit(content) THEN Invalid
    ELSE IF IntRaises(content) THEN Error
    ELSE Value(Some(IntOf(content)))

\* The parser a field's resolver hands to _ask_question.
Parse(f, content, m, g, e) ==
    CASE f = "role" -> ParseRole(content, m, g)
      [] f = "category" -> ParseCategory(content, m, g)
      [] f = "channel" -> ParseChannel(content, m, g)
      [] f = "captain" -> ParseMember(content, m, e)
      [] f \in {"starters", "substitutes"} -> ParseGroup(content, m, e)
      [] f = "year" -> ParseYear(content)
      [] f = "seniority" -> ParseSeniority(content)

\* _prompt_team_nick.normalize
Normalize(value) ==
    IF value = None THEN None
    ELSE LET cleaned == Strip(value[1])
         IN  IF cleaned = <<>> THEN None ELSE Some(cleaned)

\* ----------------------------------------------------------------- engine

\* A review loop that extends a member group with the resolver's list instead
\* of replacing it
CompleteExtending(r, f, value) ==
    LET d == [r.draft EXCEPT ![f] = IF f \in {"starters", "substitutes"}
                                    THEN @ \o value ELSE value]
        base == [r EXCEPT !.draft = d, !.pending = NoPending, !.sem = NoSem]
        review == [base EXCEPT !.pc = "review", !.inReview = FALSE,
                               !.fld = "team_nick"]
    IN  IF r.inReview THEN review
        ELSE IF f = "substitutes" THEN [base EXCEPT !.pc = "fixup"]
        ELSE IF f = "year" THEN StartSemester(base)
        ELSE IF f = "seniority" THEN review
        ELSE [base EXCEPT !.pc = "ask", !.fld = FieldOrder[FieldIndex(f) + 1]]

\* A resolver returned `value` for field f: in _collect_team_data the draft
\* attribute is set and the next prompt follows; in _review_answers the
\* attribute named by the reply is set and the loop goes round.
Complete(r, f, value) ==
    LET d == [r.draft EXCEPT ![f] = value]
        base == [r EXCEPT !.draft = d, !.pending = NoPending, !.sem = NoSem]
        review == [base EXCEPT !.pc = "review", !.inReview = FALSE,
                               !.fld = "team_nick"]
    IN  IF r.inReview THEN review
        ELSE IF f = "substitutes" THEN [base EXCEPT !.pc = "fixup"]
        ELSE IF f = "year" THEN StartSemester(base)
        ELSE IF f = "seniority" THEN review
        ELSE [base EXCEPT !.pc = "ask", !.fld = FieldOrder[FieldIndex(f) + 1]]

\* allow_na passed for the starters too
AllowNaStarters(f) == f \in {"team_nick", "starters", "substitutes"}

\* allow_na of the field's _ask_question call
AllowNa(f) == f \in {"team_nick", "substitutes"}

\* What the resolver returns when _ask_question returned None
NaValue(f) == IF f = "team_nick" THEN Normalize(None) ELSE <<>>

\* _ask_question returning an empty reply when there is no parser
OnAskEmptyAccepted(r, g, m, e) ==
    LET content == Strip(m.content)
    IN  IF ShouldExit(content) THEN Result(Cancel(r), g)
        ELSE IF AllowNa(r.fld) /\ Lower(content) \in NA_KEYWORDS
        THEN Result(Complete(r, r.fld, NaValue(r.fld)), g)
        ELSE IF r.fld = "team_nick"
        THEN Result(Complete(r, r.fld, Normalize(Some(content))), g)
        ELSE LET res == Parse(r.fld, content, m, g, e)
             IN  CASE res.t = "invalid" -> Result(r, g)
                   [] res.t = "error" -> Result(CollectFail(r), g)
                   [] res.t = "value" -> Result(Complete(r, r.fld, res.v), g)
                   [] res.t = "confirm" ->
                        Result([r EXCEPT !.pc = "confirm", !.pending = res.pending], g)

\* _ask_question: one pass of its loop on the reply m
OnAsk(r, g, m, e) ==
    LET content == Strip(m.content)
    IN  IF ShouldExit(content) THEN Result(Cancel(r), g)
        ELSE IF AllowNa(r.fld) /\ Lower(content) \in NA_KEYWORDS
        THEN Result(Complete(r, r.fld, NaValue(r.fld)), g)
        ELSE IF r.fld = "team_nick"
        THEN IF content # <<>>
             THEN Result(Complete(r, r.fld, Normalize(Some(content))), g)
             ELSE Result(r, g)
        ELSE LET res == Parse(r.fld, content, m, g, e)
             IN  CASE res.t = "invalid" -> Result(r, g)
                   [] res.t = "error" -> Result(CollectFail(r), g)
                   [] res.t = "value" -> Result(Complete(r, r.fld, res.v), g)
                   [] res.t = "confirm" ->
                        Result([r EXCEPT !.pc = "confirm", !.pending = res.pending], g)

\* A creation call that returns an id but leaves no entity in the guild
CreateNothing(g, f, name, category) ==
    CASE f = "role" -> [g EXCEPT !.next.role = @ + 1]
      [] f = "category" -> [g EXCEPT !.next.category = @ + 1]
      [] f = "channel" -> [g EXCEPT !.next.channel = @ + 1]

\* guild.create_role / create_category / create_text_channel(name, category)
CreateEntity(g, f, name, category) ==
    CASE f = "role" ->
            [g EXCEPT !.roles = @ \cup {[id |-> g.next.role, name |-> name]},
                      !.next.role = @ + 1]
      [] f = "category" ->
            [g EXCEPT !.categories = @ \cup {[id |-> g.next.category, name |-> name]},
                      !.next.category = @ + 1]
      [] f = "channel" ->
            [g EXCEPT !.channels = @ \cup {[id |-> g.next.channel, name |-> name,
                                            kind |-> "text", category |-> category]},
                      !.next.channel = @ + 1]

\* The category handed to _prompt_channel: draft.category (its id, 0 for None)
DraftCategory(d) == IF d.category = None THEN 0 ELSE d.category[1]

\* The rest of a parser after _confirm answered True
AfterYes(r, g, e) ==
    CASE r.pending.kind = "use" -> Result(Complete(r, r.fld, Some(r.pending.id)), g)
      [] r.pending.kind = "group" -> Result(Complete(r, r.fld, r.pending.members), g)
      [] r.pending.kind = "create" ->
            IF e.create = "ok"
            THEN Result(Complete(r, r.fld, Some(g.next[r.fld])),
                        CreateEntity(g, r.fld, r.pending.name, DraftCategory(r.draft)))
            ELSE Result([r EXCEPT !.pc = "ask", !.pending = NoPending], g)

\* _confirm without its cancellation check
OnConfirmNoExit(r, g, m, e) ==
    LET content == Lower(Strip(m.content))
    IN  IF content \in YES_KEYWORDS THEN AfterYes(r, g, e)
        ELSE IF content \in NO_KEYWORDS
        THEN Result([r EXCEPT !.pc = "ask", !.pending = NoPending], g)
        ELSE Result(r, g)

\* A _confirm that takes every reply but "no" for a yes
OnConfirmDefaultYes(r, g, m, e) ==
    LET content == Lower(Strip(m.content))
    IN  IF ShouldExit(content) THEN Result(Cancel(r), g)
        ELSE IF content \in NO_KEYWORDS
        THEN Result([r EXCEPT !.pc = "ask", !.pending = NoPending], g)
        ELSE AfterYes(r, g, e)

\* _confirm: one pass of its loop on the reply m, and what the parser does next
OnConfirm(r, g, m, e) ==
    LET content == Lower(Strip(m.content))
    IN  IF ShouldExit(content) THEN Result(Cancel(r), g)
        ELSE IF content \in YES_KEYWORDS THEN AfterYes(r, g, e)
        ELSE IF content \in NO_KEYWORDS
        THEN Result([r EXCEPT !.pc = "ask", !.pending = NoPending], g)
        ELSE Result(r, g)

\* The keys of field_map in _review_answers, as the operator types them
FieldNames ==
    (<<"t", "e", "a", "m", "_", "n", "i", "c", "k">> :> "team_nick")
    @@ (<<"r", "o", "l", "e">> :> "role")
    @@ (<<"c", "a", "t", "e", "g", "o", "r", "y">> :> "category")
    @@ (<<"c", "h", "a", "n", "n", "e", "l">> :> "channel")
    @@ (<<"c", "a", "p", "t", "a", "i", "n">> :> "captain")
    @@ (<<"s", "t", "a", "r", "t", "e", "r", "s">> :> "starters")
    @@ (<<"s", "u", "b", "s", "t", "i", "t", "u", "t", "e", "s">> :> "substitutes")
    @@ (<<"y", "e", "a", "r">> :> "year")
    @@ (<<"s", "e", "m", "e", "s", "t", "e", "r">> :> "semester")
    @@ (<<"s", "e", "n", "i", "o", "r", "i", "t", "y">> :> "seniority")

CONFIRM_KEYWORD == <<"c", "o", "n", "f", "i", "r", "m">>

\* _review_answers looking the reply up in field_map without lowering it
OnReviewCaseSensitive(r, g, m) ==
    LET content == Strip(m.content)
    IN  IF ShouldExit(content) THEN Result(Cancel(r), g)
        ELSE IF Lower(content) = CONFIRM_KEYWORD
        THEN Result([r EXCEPT !.pc = "finalize"], g)
        ELSE IF content \notin DOMAIN FieldNames THEN Result(r, g)
        ELSE LET f == FieldNames[content]
                 r1 == [r EXCEPT !.inReview = TRUE, !.fld = f]
             IN  IF f = "semester" THEN Result(StartSemester(r1), g)
                 ELSE Result([r1 EXCEPT !.pc = "ask"], g)

\* _review_answers: one pass of its loop on the reply m, up to the handler call
OnReview(r, g, m) ==
    LET content == Strip(m.content)
    IN  IF ShouldExit(content) THEN Result(Cancel(r), g)
        ELSE IF Lower(content) = CONFIRM_KEYWORD
        THEN Result([r EXCEPT !.pc = "finalize"], g)
        ELSE IF Lower(content) \notin DOMAIN FieldNames THEN Result(r, g)
        ELSE LET f == FieldNames[Lower(content)]
                 r1 == [r EXCEPT !.inReview = TRUE, !.fld = f]
             IN  IF f = "semester" THEN Result(StartSemester(r1), g)
                 ELSE Result([r1 EXCEPT !.pc = "ask"], g)

\* The run's reaction to a reply that one of its plain waits received
OnReply(r, g, m, e) ==
    CASE r.pc = "ask" -> OnAsk(r, g, m, e)
      [] r.pc = "confirm" -> OnConfirm(r, g, m, e)
      [] r.pc = "review" -> OnReview(r, g, m)

\* _ensure_captain_assignment putting the captain in front of the starters
EnsureCaptainFirst(d) ==
    IF d.captain = None THEN [draft |-> d, notice |-> FALSE]
    ELSE IF d.captain[1] \in Range(d.substitutes) THEN [draft |-> d, notice |-> FALSE]
    ELSE IF d.captain[1] \in Range(d.starters) THEN [draft |-> d, notice |-> FALSE]
    ELSE [draft |-> [d EXCEPT !.starters = <<d.captain[1]>> \o @], notice |-> TRUE]

\* create_team._ensure_captain_assignment: the draft it leaves, and whether it
\* sent the "added to starters by default" notice
EnsureCaptainAssignment(d) ==
    IF d.captain = None THEN [draft |-> d, notice |-> FALSE]
    ELSE IF d.captain[1] \in Range(d.substitutes) THEN [draft |-> d, notice |-> FALSE]
    ELSE IF d.captain[1] \in Range(d.starters) THEN [draft |-> d, notice |-> FALSE]
    ELSE [draft |-> [d EXCEPT !.starters = Append(@, d.captain[1])], notice |-> TRUE]

\* create_team.py:123-125: the fixups after starters and substitutes
PostCollect(r) ==
    LET d1 == [r.draft EXCEPT !.starters = DedupeMembers(@),
                              !.substitutes = DedupeMembers(@)]
        fix == EnsureCaptainAssignment(d1)
    IN  [r EXCEPT !.draft = fix.draft, !.notice = fix.notice, !.pc = "ask",
                  !.fld = "year"]

\* ---------------------------------------------------------------- summary

DecimalDigits == <<"0", "1", "2", "3", "4", "5", "6", "7", "8", "9">>

RECURSIVE StrOf(_)
\* str(n) of a natural number
StrOf(n) ==
    IF n < 10 THEN <<DecimalDigits[n + 1]>>
    ELSE StrOf(n \div 10) \o <<DecimalDigits[(n % 10) + 1]>>

\* member.display_name, role.mention, channel.mention, member.mention
DisplayName(member) == <<"m">> \o StrOf(member)
RoleMention(id) == <<"<", "@", "&">> \o StrOf(id) \o <<">">>
ChannelMention(id) == <<"<", "#">> \o StrOf(id) \o <<">">>
MemberMention(id) == <<"<", "@">> \o StrOf(id) \o <<">">>

\* category.name of the category the draft holds
CategoryName(g, id) ==
    LET found == {c \in g.categories : c.id = id}
    IN  IF found = {} THEN <<>> ELSE Pick(found).name

RECURSIVE JoinNames(_)
\* ", ".join(member.display_name for member in members)
JoinNames(members) ==
    IF members = <<>> THEN <<>>
    ELSE IF Len(members) = 1 THEN DisplayName(members[1])
    ELSE DisplayName(members[1]) \o <<",", " ">> \o JoinNames(Tail(members))

NotSet == <<"N", "o", "t", " ", "s", "e", "t">>
NoneText == <<"N", "o", "n", "e">>
NaText == <<"N", "/", "A">>

\* create_team._format_summary: the text after each label, in order (the
\* semester is one of the selector's option strings)
FormatSummary(d, g) ==
    <<IF d.team_nick = None \/ d.team_nick = Some(<<>>) THEN NaText ELSE d.team_nick[1],
      IF d.role = None THEN NotSet ELSE RoleMention(d.role[1]),
      IF d.category = None THEN NotSet ELSE CategoryName(g, d.category[1]),
      IF d.channel = None THEN NotSet ELSE ChannelMention(d.channel[1]),
      IF d.captain = None THEN NotSet ELSE MemberMention(d.captain[1]),
      IF JoinNames(d.starters) = <<>> THEN NoneText ELSE JoinNames(d.starters),
      IF JoinNames(d.substitutes) = <<>> THEN NoneText ELSE JoinNames(d.substitutes),
      IF d.year = None \/ d.year = Some(0) THEN NotSet ELSE StrOf(d.year[1]),
      IF d.semester = None \/ d.semester = Some("") THEN "Not set" ELSE d.semester[1],
      IF d.seniority = None THEN NotSet ELSE StrOf(d.seniority[1])>>

\* --------------------------------------------------------------- semester

\* The options of SemesterSelect
SemesterOptions == {"Fall", "Summer", "Spring"}

\* SemesterSelect._select_callback, up to self.stop(): the operator's selection
SemSelect(r, v) == [r EXCEPT !.sem.value = Some(v)]

\* self.stop() of the callback, or the view's own timeout: view.wait() returns
SemViewDone(r) == [r EXCEPT !.sem.view = "done"]

\* _wait_for_exit_signal returned True (a cancellation token) or False (timeout)
SemExitDone(r, got) == [r EXCEPT !.sem.exit = IF got THEN "true" ELSE "false"]

\* _prompt_semester looking at the selection before the exit task
SemResumeValueFirst(r) ==
    IF r.sem.value # None THEN Complete(r, "semester", r.sem.value)
    ELSE Cancel(r)

\* A _prompt_semester that leaves the pending task running
CancelNothing(sem) == sem

\* for task in pending: task.cancel() (create_team.py:387-388)
CancelPending(sem) ==
    [sem EXCEPT !.exit = IF @ = "pending" THEN "cancelled" ELSE @,
                !.view = IF @ = "pending" THEN "cancelled" ELSE @]

\* A _prompt_semester that shows the selector again when nothing was selected
SemResumeAskAgain(r) ==
    IF r.sem.exit = "true" THEN [Cancel(r) EXCEPT !.sem = CancelPending(r.sem)]
    ELSE IF r.sem.value = None THEN StartSemester(r)
    ELSE [Complete(r, "semester", r.sem.value) EXCEPT !.sem = CancelPending(r.sem)]

\* _prompt_semester after asyncio.wait returned (create_team.py:386-402); sem
\* keeps what became of the step's two tasks and of its view
SemResume(r) ==
    IF r.sem.exit = "true" THEN [Cancel(r) EXCEPT !.sem = CancelPending(r.sem)]
    ELSE IF r.sem.value = None THEN [Cancel(r) EXCEPT !.sem = CancelPending(r.sem)]
    ELSE [Complete(r, "semester", r.sem.value) EXCEPT !.sem = CancelPending(r.sem)]

\* -------------------------------------------------------------- finalizer

\* The assert at the top of _finalize_team
AssertDraft(d) ==
    /\ d.role # None
    /\ d.channel # None
    /\ d.category # None
    /\ d.captain # None
    /\ d.year # None /\ d.year[1] # 0
    /\ d.semester # None /\ d.semester[1] # ""
    /\ d.seniority # None

\* The conflict query selecting the archived teams instead of the others
ConflictRowsArchived(w, d) ==
    {t \in w.teams : /\ t.role_id = d.role[1]
                     /\ t.category_id = d.category[1]
                     /\ t.channel_id = d.channel[1]
                     /\ t.archived}

\* The conflict query with the category's and the channel's parameters swapped
ConflictRowsSwapped(w, d) ==
    {t \in w.teams : /\ t.role_id = d.role[1]
                     /\ t.category_id = d.channel[1]
                     /\ t.channel_id = d.category[1]
                     /\ ~t.archived}

\* SELECT team_id FROM teams WHERE role_id = $1 AND category_id = $2
\*   AND channel_id = $3 AND archived IS NOT TRUE
ConflictRows(w, d) ==
    {t \in w.teams : /\ t.role_id = d.role[1]
                     /\ t.category_id = d.category[1]
                     /\ t.channel_id = d.channel[1]
                     /\ ~t.archived}

\* The team_id the store's sequence gives the next inserted team
NextTeamId(w) == Cardinality(w.teams) + 1

\* INSERT INTO teams (...) VALUES (...) RETURNING team_id
InsertTeam(w, d) ==
    [w EXCEPT !.teams = @ \cup
        {[team_id |-> NextTeamId(w), team_nick |-> d.team_nick,
          role_id |-> d.role[1], channel_id |-> d.channel[1],
          category_id |-> d.category[1], captain |-> d.captain[1],
          year |-> d.year[1], semester |-> d.semester[1],
          seniority |-> d.seniority[1], archived |-> FALSE]}]

\* upsert_player for every starter and substitute, then for the captain
UpsertPlayers(w, d) ==
    [w EXCEPT !.players = @ \cup Range(d.starters) \cup Range(d.substitutes)
                            \cup {d.captain[1]}]

\* upsert_member: INSERT ... ON CONFLICT (team_id, player_discord_id) DO UPDATE
UpsertMember(rows, team_id, member, status) ==
    {row \in rows : ~(row.team_id = team_id /\ row.member = member)}
    \cup {[team_id |-> team_id, member |-> member, status |-> status]}

RECURSIVE UpsertAll(_, _, _, _)
UpsertAll(rows, team_id, members, status) ==
    IF members = <<>> THEN rows
    ELSE UpsertAll(UpsertMember(rows, team_id, members[1], status), team_id,
                   Tail(members), status)

\* The membership upserts with the substitutes' rows written first
UpsertMembersSubsFirst(w, team_id, d) ==
    [w EXCEPT !.team_members =
        UpsertAll(UpsertAll(@, team_id, d.substitutes, "sub"), team_id,
                  d.starters, "starter")]

\* create_team.py:538-541: the starters' rows, then the substitutes'
UpsertMembers(w, team_id, d) ==
    [w EXCEPT !.team_members =
        UpsertAll(UpsertAll(@, team_id, d.starters, "starter"), team_id,
                  d.substitutes, "sub")]

\* involved_members without the captain
InvolvedWithoutCaptain(d) == Range(d.starters) \cup Range(d.substitutes)

\* involved_members = {draft.captain, *draft.starters, *draft.substitutes}
InvolvedMembers(d) == Range(d.captain) \cup Range(d.starters) \cup Range(d.substitutes)

\* The store: the teams, players and team_members tables
EmptyStore == [teams |-> {}, players |-> {}, team_members |-> {}]

\* A store that already holds one active team on the guild's existing role,
\* category and channel
ExistingTeam ==
    [team_id |-> 1, team_nick |-> Some(<<"o">>), role_id |-> Ids.role,
     channel_id |-> Ids.text, category_id |-> Ids.category, captain |-> 1,
     year |-> 2024, semester |-> "Spring", seniority |-> 1, archived |-> FALSE]
StoreWith(team) ==
    [teams |-> {team}, players |-> {1},
     team_members |-> {[team_id |-> 1, member |-> 1, status |-> "starter"]}]

\* What _finalize_team holds besides the draft: the inserted team's id, the
\* members still to be granted the role, the add_roles calls made with their
\* results, and the warnings list
NoFin == [team_id |-> 0, remaining |-> {}, attempts |-> <<>>, warnings |-> <<>>]

\* db.run_in_transaction: no transaction is open
NoTx == [owner |-> 0, work |-> EmptyStore]

\* No message is on its way
NoInbox == [msg |-> Msg(<<>>), env |-> [create |-> "ok", httpFail |-> {}],
            read |-> TRUE]

\* No /list_teams or /archive_team call: the command's name, where its
\* coroutine is suspended, its arguments, the rows its query returned, the
\* channel and the role archive_team found in the guild, the role's members
\* still to be processed, the external calls that raised, the messages it sent
\* and whether an exception left the callback
NoCmd == [name |-> "none", pc |-> "idle", nick |-> <<>>, move |-> FALSE,
          rows |-> <<>>, channel |-> None, role |-> None, todo |-> {},
          failures |-> {}, sent |-> <<>>, raised |-> FALSE]

\* ----------------------------------------------------------------- state

VARIABLES
    run,      \* operator -> the run record of that operator's /create_team
    fin,      \* operator -> the locals of that run's _finalize_team
    guild,    \* the guild directory: roles, categories, channels
    granted,  \* the <<member, role id>> pairs add_roles has applied
    store,    \* the committed teams, players and team_members tables
    tx,       \* the open transaction of db.run_in_transaction, if any
    inbox,    \* a message on its way to the run (with the platform's answers)
    cmd       \* operator -> that operator's /list_teams or /archive_team call

vars == <<run, fin, guild, granted, store, tx, inbox, cmd>>

\* ---------------------------------------------------------------- inputs

ExitText == <<"e", "x", "i", "t">>
CommonInputs == {Msg(ExitText), Msg(<<" ", "(", "E", "x", "i", "t", ")", " ">>), Msg(<<>>)}

AskInputs(f) ==
    CommonInputs \cup
    CASE f = "team_nick" -> {Msg(<<"N", "/", "A">>), Msg(<<" ", "x", " ">>)}
      [] f = "role" -> {RoleMentionMsg(Ids.role), Msg(<<"R">>), Msg(<<"n">>)}
      [] f = "category" -> {Msg(<<"5">>), Msg(<<"m">>), Msg(<<"n">>), Msg(<<"^2">>)}
      [] f = "channel" -> {ChannelMentionMsg(Ids.text), ChannelMentionMsg(Ids.voice),
                           Msg(<<"6">>), Msg(<<"C">>), Msg(<<"n">>)}
      [] f = "captain" -> {MentionMsg(<<mb>>) : mb \in Members}
                          \cup {Msg(<<"1">>), Msg(<<"2">>), Msg(<<"9">>), Msg(<<"x">>)}
      [] f = "starters" -> {[MentionMsg(<<1>>) EXCEPT !.content = <<"@", " ", "1">>],
                            Msg(<<"1", " ", "2">>), Msg(<<"2", ",", "1">>),
                            Msg(<<"N", "/", "A">>), Msg(<<"9">>),
                            Msg(<<"1", " ", "^2">>)}
      [] f = "substitutes" -> {Msg(<<"N", "/", "A">>), Msg(<<"n", "a">>), Msg(<<"1">>),
                               MentionMsg(<<1, 2>>), Msg(<<"x">>)}
      [] f = "year" -> {Msg(<<"2", "0", "2", "5">>), Msg(<<"1", "9", "9", "9">>),
                        Msg(<<"2", "1", "0", "1">>), Msg(<<"x">>), Msg(<<"^2">>)}
      [] f = "seniority" -> {Msg(<<"0">>), Msg(<<"x">>), Msg(<<"^2">>)}

ConfirmInputs ==
    CommonInputs \cup {Msg(<<"y", "e", "s">>), Msg(<<" ", "Y">>), Msg(<<"n", "o">>),
                       Msg(<<"N">>), Msg(<<"x">>)}

ReviewInputs ==
    CommonInputs \cup {Msg(<<"C", "o", "n", "f", "i", "r", "m">>), Msg(<<"x">>),
                       Msg(<<"R", "O", "L", "E">>)}
    \cup {Msg(name) : name \in DOMAIN FieldNames}

SemesterInputs == {"Fall"}

\* The platform outcomes a reply's handling can depend on. The platform rejects
\* the creation of an entity with an empty name.
EnvsFor(r) ==
    IF r.pc = "confirm" /\ r.pending.kind = "create"
    THEN {e \in Envs : e.httpFail = {} /\ (r.pending.name = <<>> => e.create # "ok")}
    ELSE IF r.pc = "ask" /\ r.fld \in {"captain", "starters", "substitutes"}
    THEN {e \in Envs : e.create = "ok"}
    ELSE {[create |-> "ok", httpFail |-> {}]}

\* ---------------------------------------------------------------- actions

SetRun(p, r) == run' = [run EXCEPT ![p] = r]

\* The cancellation token of the wizard: "exit" or "(exit)", whatever the case
\* and the surrounding blanks
IsCancelToken(content) ==
    Lower(Strip(content)) \in {<<"e", "x", "i", "t">>, <<"(", "e", "x", "i", "t", ")">>}

\* The run record after one of the run's waits received m (gotExit remembers
\* that a cancellation token was received; the tasks of an earlier semester
\* step are forgotten)
Received(r, m) ==
    [r EXCEPT !.gotExit = @ \/ IsCancelToken(m.content),
              !.sem = IF r.pc = "semester" THEN @ ELSE NoSem]

\* What the command is invoked with: whether interaction.guild is set, whether
\* the client has an Admin cog, and what that cog's is_admin(user) answers
Invocations == [guild : BOOLEAN, cog : BOOLEAN, admin : BOOLEAN]

\* A permission gate that lets everybody in when there is no Admin cog
OnCommandCogOptional(r, inv) ==
    IF ~inv.guild THEN EndRun(r, "refused")
    ELSE IF inv.cog /\ ~inv.admin THEN EndRun(r, "refused")
    ELSE [r EXCEPT !.pc = "ask"]

\* create_team.create_team up to the first prompt of _collect_team_data: the
\* two refusals, or the "Starting team creation" message and the label prompt
OnCommand(r, inv) ==
    IF ~inv.guild THEN EndRun(r, "refused")
    ELSE IF ~inv.cog \/ ~inv.admin THEN EndRun(r, "refused")
    ELSE [r EXCEPT !.pc = "ask"]

\* create_team.create_team up to _collect_team_data (create_team.py:73-91)
Start(p) ==
    /\ run[p].pc = "idle"
    /\ \E inv \in Invocations : SetRun(p, OnCommand(run[p], inv))
    /\ UNCHANGED <<cmd, inbox, fin, guild, granted, store, tx>>

\* A reply arrives at the wait of _ask_question
AskReply(p) ==
    /\ run[p].pc = "ask"
    /\ \E m \in AskInputs(run[p].fld), e \in EnvsFor(run[p]) :
          LET res == OnReply(run[p], guild, m, e)
          IN  SetRun(p, Received(res.run, m)) /\ guild' = res.guild
    /\ UNCHANGED <<cmd, inbox, fin, granted, store, tx>>

\* A reply arrives at the wait of _confirm
ConfirmReply(p) ==
    /\ run[p].pc = "confirm"
    /\ \E m \in ConfirmInputs, e \in EnvsFor(run[p]) :
          LET res == OnReply(run[p], guild, m, e)
          IN  SetRun(p, Received(res.run, m)) /\ guild' = res.guild
    /\ UNCHANGED <<cmd, inbox, fin, granted, store, tx>>

\* A reply arrives at the wait of _review_answers
ReviewReply(p) ==
    /\ run[p].pc = "review"
    /\ \E m \in ReviewInputs, e \in EnvsFor(run[p]) :
          LET res == OnReply(run[p], guild, m, e)
          IN  SetRun(p, Received(res.run, m)) /\ guild' = res.guild
    /\ UNCHANGED <<cmd, inbox, fin, granted, store, tx>>

\* A reply timeout that sends the same prompt again
OnTimeoutAskAgain(r) == r

\* _wait_for_reply when wait_for raises asyncio.TimeoutError: it raises
\* ConversationCancelled, which neither _ask_question, _confirm nor
\* _review_answers catches
OnTimeout(r) == Cancel(r)

\* REPLY_TIMEOUT elapses at a wait of _ask_question, _confirm or
\* _review_answers (timedOut remembers at which)
ReplyTimeout(p) ==
    /\ run[p].pc \in {"ask", "confirm", "review"}
    /\ SetRun(p, [OnTimeout(run[p]) EXCEPT !.timedOut = run[p].pc])
    /\ UNCHANGED <<cmd, inbox, fin, guild, granted, store, tx>>

\* create_team.py:123-125
PostCollectStep(p) ==
    /\ run[p].pc = "fixup"
    /\ SetRun(p, PostCollect(run[p]))
    /\ UNCHANGED <<cmd, inbox, fin, guild, granted, store, tx>>

\* The operator picks an option of the selector
SemesterSelect(p) ==
    /\ run[p].pc = "semester"
    /\ run[p].sem.view = "pending"
    /\ \E v \in SemesterInputs : SetRun(p, SemSelect(run[p], v))
    /\ UNCHANGED <<cmd, inbox, fin, guild, granted, store, tx>>

\* The callback reaches self.stop()
SemesterViewStop(p) ==
    /\ run[p].pc = "semester"
    /\ run[p].sem.view = "pending"
    /\ run[p].sem.value # None
    /\ SetRun(p, SemViewDone(run[p]))
    /\ UNCHANGED <<cmd, inbox, fin, guild, granted, store, tx>>

\* The view's timeout (120) elapses
SemesterViewTimeout(p) ==
    /\ run[p].pc = "semester"
    /\ run[p].sem.view = "pending"
    /\ SetRun(p, SemViewDone(run[p]))
    /\ UNCHANGED <<cmd, inbox, fin, guild, granted, store, tx>>

\* A cancellation token arrives at _wait_for_exit_signal
SemesterExitMessage(p) ==
    /\ run[p].pc = "semester"
    /\ run[p].sem.exit = "pending"
    /\ \E m \in CommonInputs :
          /\ ShouldExit(m.content)
          /\ SetRun(p, Received(SemExitDone(run[p], TRUE), m))
    /\ UNCHANGED <<cmd, inbox, fin, guild, granted, store, tx>>

\* _wait_for_exit_signal times out (REPLY_TIMEOUT)
SemesterExitTimeout(p) ==
    /\ run[p].pc = "semester"
    /\ run[p].sem.exit = "pending"
    /\ SetRun(p, SemExitDone(run[p], FALSE))
    /\ UNCHANGED <<cmd, inbox, fin, guild, granted, store, tx>>

\* An option is selected on the view of a semester step that is over: the view
\* was not stopped, so SemesterSelect._select_callback still runs
SemesterLateSelect(p) ==
    /\ run[p].pc # "semester"
    /\ run[p].sem.view = "cancelled"
    /\ \E v \in SemesterInputs : SetRun(p, SemViewDone(SemSelect(run[p], v)))
    /\ UNCHANGED <<cmd, inbox, fin, guild, granted, store, tx>>

\* asyncio.wait returned: one of the two tasks is done
SemesterResume(p) ==
    /\ run[p].pc = "semester"
    /\ run[p].sem.exit \in {"true", "false"} \/ run[p].sem.view = "done"
    /\ SetRun(p, SemResume(run[p]))
    /\ UNCHANGED <<cmd, inbox, fin, guild, granted, store, tx>>

\* A _finalize_team that grants the role before it opens the transaction
FinalizeEnterGrantFirst(p) ==
    /\ run[p].pc = "finalize"
    /\ fin' = [fin EXCEPT ![p].remaining = InvolvedMembers(run[p].draft)]
    /\ SetRun(p, [run[p] EXCEPT !.pc = "grant"])
    /\ UNCHANGED <<cmd, inbox, guild, granted, store, tx>>

\* _finalize_team is entered: its assert (create_team.py:476)
FinalizeEnter(p) ==
    /\ run[p].pc = "finalize"
    /\ SetRun(p, IF AssertDraft(run[p].draft) THEN [run[p] EXCEPT !.pc = "tx_begin"]
                 ELSE EndRun(run[p], "failed"))
    /\ UNCHANGED <<cmd, inbox, fin, guild, granted, store, tx>>

\* db.run_in_transaction opens the transaction and calls db_transaction: one
\* transaction at a time works on the tables
TxBegin(p) ==
    /\ run[p].pc = "tx_begin"
    /\ tx.owner = 0
    /\ tx' = [owner |-> p, work |-> store]
    /\ SetRun(p, [run[p] EXCEPT !.pc = "tx_check"])
    /\ UNCHANGED <<cmd, inbox, fin, guild, granted, store>>

\* db.run_in_transaction when db_transaction raised: nothing is committed
Rollback(p, how) ==
    /\ tx' = NoTx
    /\ SetRun(p, EndRun(run[p], how))
    /\ fin' = [fin EXCEPT ![p] = NoFin]
    /\ UNCHANGED <<cmd, inbox, guild, granted, store>>

\* The conflict query of db_transaction (create_team.py:480-493)
TxCheck(p) ==
    /\ run[p].pc = "tx_check"
    /\ tx.owner = p
    /\ IF ConflictRows(tx.work, run[p].draft) # {}
       THEN Rollback(p, "blocked_conflict")
       ELSE /\ SetRun(p, [run[p] EXCEPT !.pc = "tx_insert"])
            /\ UNCHANGED <<cmd, inbox, fin, guild, granted, store, tx>>

\* The INSERT INTO teams of db_transaction (create_team.py:495-512): it returns
\* the new row, returns no row, or raises
TxInsert(p) ==
    /\ run[p].pc = "tx_insert"
    /\ tx.owner = p
    /\ \E outcome \in {"row", "norow", "raise"} :
          CASE outcome = "row" ->
                  /\ tx' = [tx EXCEPT !.work = InsertTeam(@, run[p].draft)]
                  /\ fin' = [fin EXCEPT ![p].team_id = NextTeamId(tx.work)]
                  /\ SetRun(p, [run[p] EXCEPT !.pc = "tx_players"])
                  /\ UNCHANGED <<cmd, inbox, guild, granted, store>>
            [] outcome = "norow" -> Rollback(p, "blocked_insert")
            [] outcome = "raise" -> Rollback(p, "failed")

\* create_team.py:533-536: the players upserts, which may raise
TxPlayers(p) ==
    /\ run[p].pc = "tx_players"
    /\ tx.owner = p
    /\ \E ok \in BOOLEAN :
          IF ok
          THEN /\ tx' = [tx EXCEPT !.work = UpsertPlayers(@, run[p].draft)]
               /\ SetRun(p, [run[p] EXCEPT !.pc = "tx_members"])
               /\ UNCHANGED <<cmd, inbox, fin, guild, granted, store>>
          ELSE Rollback(p, "failed")

\* create_team.py:538-541: the team_members upserts, which may raise
TxMembers(p) ==
    /\ run[p].pc = "tx_members"
    /\ tx.owner = p
    /\ \E ok \in BOOLEAN :
          IF ok
          THEN /\ tx' = [tx EXCEPT !.work =
                            UpsertMembers(@, fin[p].team_id, run[p].draft)]
               /\ SetRun(p, [run[p] EXCEPT !.pc = "tx_commit"])
               /\ UNCHANGED <<cmd, inbox, fin, guild, granted, store>>
          ELSE Rollback(p, "failed")

\* db_transaction returned: db.run_in_transaction commits (create_team.py:543),
\* and _finalize_team builds involved_members (create_team.py:546)
TxCommit(p) ==
    /\ run[p].pc = "tx_commit"
    /\ tx.owner = p
    /\ store' = tx.work
    /\ tx' = NoTx
    /\ fin' = [fin EXCEPT ![p].remaining = InvolvedMembers(run[p].draft)]
    /\ SetRun(p, [run[p] EXCEPT !.pc = "grant"])
    /\ UNCHANGED <<cmd, inbox, guild, granted>>

\* The warning _finalize_team appends when add_roles raised
Warning(member, result) == [kind |-> result, member |-> member]

\* The role-grant loop's except clauses with the HTTPException one passing
WarningsAfterForbiddenOnly(warnings, member, result) ==
    IF result = "forbidden" THEN Append(warnings, Warning(member, result))
    ELSE warnings

\* The except clauses of the role-grant loop (create_team.py:552-555)
WarningsAfter(warnings, member, result) ==
    IF result = "forbidden" THEN Append(warnings, Warning(member, result))
    ELSE IF result = "http" THEN Append(warnings, Warning(member, result))
    ELSE warnings

\* One pass of the role-grant loop (create_team.py:547-555): add_roles succeeds,
\* raises Forbidden or raises another HTTPException
GrantRole(p) ==
    /\ run[p].pc = "grant"
    /\ \E member \in fin[p].remaining, result \in {"ok", "forbidden", "http"} :
          /\ fin' = [fin EXCEPT
                ![p].remaining = @ \ {member},
                ![p].attempts = Append(@, [member |-> member, result |-> result]),
                ![p].warnings = WarningsAfter(@, member, result)]
          /\ granted' = IF result = "ok"
                        THEN granted \cup {<<member, run[p].draft.role[1]>>}
                        ELSE granted
    /\ UNCHANGED <<cmd, inbox, run, guild, store, tx>>

\* _finalize_team returns the warnings; create_team sends the summary
\* (create_team.py:557, 108-112)
Report(p) ==
    /\ run[p].pc = "grant"
    /\ fin[p].remaining = {}
    /\ SetRun(p, EndRun(run[p], "summary"))
    /\ UNCHANGED <<cmd, inbox, fin, guild, granted, store, tx>>

\* ---------------------------------------------------------- specifications

Collect(p) ==
    \/ Start(p)
    \/ AskReply(p)
    \/ ConfirmReply(p)
    \/ ReviewReply(p)
    \/ ReplyTimeout(p)
    \/ PostCollectStep(p)
    \/ SemesterSelect(p)
    \/ SemesterViewStop(p)
    \/ SemesterViewTimeout(p)
    \/ SemesterExitMessage(p)
    \/ SemesterExitTimeout(p)
    \/ SemesterResume(p)
    \/ SemesterLateSelect(p)

Finalize(p) ==
    \/ FinalizeEnter(p)
    \/ TxBegin(p)
    \/ TxCheck(p)
    \/ TxInsert(p)
    \/ TxPlayers(p)
    \/ TxMembers(p)
    \/ TxCommit(p)
    \/ GrantRole(p)
    \/ Report(p)

\* The message in the inbox arrives at the wait of _ask_question
InboxReply(p) ==
    /\ run[p].pc = "ask"
    /\ ~inbox.read
    /\ LET res == OnReply(run[p], guild, inbox.msg, inbox.env)
       IN  SetRun(p, Received(res.run, inbox.msg)) /\ guild' = res.guild
    /\ inbox' = [inbox EXCEPT !.read = TRUE]
    /\ UNCHANGED <<cmd, fin, granted, store, tx>>

\* One operator runs the wizard from the command to its end, in a guild whose
\* existing role, category and channel already carry an active team.
Init ==
    /\ run = [p \in Operators |-> IdleRun]
    /\ fin = [p \in Operators |-> NoFin]
    /\ guild = InitGuild
    /\ granted = {}
    /\ store = StoreWith(ExistingTeam)
    /\ tx = NoTx
    /\ inbox = NoInbox
    /\ cmd = [p \in Operators |-> NoCmd]

Next == Collect(1) \/ Finalize(1)

Spec == Init /\ [][Next]_vars

\* Drafts _collect_team_data returns, on the guild's existing category and
\* channel: the role is the existing one or one the wizard created.
SampleDraft(role, captain, starters, substitutes) ==
    [team_nick |-> Some(<<"x">>), role |-> Some(role), category |-> Some(Ids.category),
     channel |-> Some(Ids.text), captain |-> Some(captain), starters |-> starters,
     substitutes |-> substitutes, year |-> Some(2025), semester |-> Some("Fall"),
     seniority |-> Some(0)]
DraftSamples ==
    {SampleDraft(Ids.role, 1, <<1>>, <<>>),
     SampleDraft(Ids.role, 2, <<1, 2>>, <<2>>),
     SampleDraft(FreshIds.role, 2, <<1>>, <<>>)}

StoreSamples ==
    {EmptyStore, StoreWith(ExistingTeam),
     StoreWith([ExistingTeam EXCEPT !.archived = TRUE])}

\* Several operators have each confirmed a draft in review and enter
\* _finalize_team concurrently.
InitFinal ==
    /\ run \in [Operators -> {[IdleRun EXCEPT !.pc = "finalize", !.draft = d] :
                               d \in DraftSamples}]
    /\ fin = [p \in Operators |-> NoFin]
    /\ guild = CreateEntity(InitGuild, "role", <<"n">>, 0)
    /\ granted = {}
    /\ store \in StoreSamples
    /\ tx = NoTx
    /\ inbox = NoInbox
    /\ cmd = [p \in Operators |-> NoCmd]

NextFinal == \E p \in Operators : Finalize(p)

SpecFinal == InitFinal /\ [][NextFinal]_vars

\* Member-group messages: up to MaxMentions mentions and up to MaxTokens tokens
TokenTexts == {<<"1">>, <<"2">>, <<"9">>, <<"x">>}
SeqsUpTo(S, n) == UNION {[1..k -> S] : k \in 0..n}

RECURSIVE Join(_)
\* The tokens as the operator types them: separated by ", "
Join(tokens) ==
    IF tokens = <<>> THEN <<>>
    ELSE IF Len(tokens) = 1 THEN tokens[1]
    ELSE tokens[1] \o <<",", " ">> \o Join(Tail(tokens))

GroupMessages ==
    {[MentionMsg(ms) EXCEPT !.content = Join(ts)] :
        ms \in SeqsUpTo(Members, MaxMentions), ts \in SeqsUpTo(TokenTexts, MaxTokens)}
    \cup {Msg(<<"N", "/", "A">>), Msg(<<" ", "n", "a">>)}

\* The run is at the starters or the substitutes prompt of _collect_team_data
\* and one member-group message is on its way.
AtGroupPrompt(f, captain) ==
    [IdleRun EXCEPT !.pc = "ask", !.fld = f,
        !.draft = [EmptyDraft EXCEPT !.role = Some(Ids.role),
                     !.category = Some(Ids.category), !.channel = Some(Ids.text),
                     !.captain = Some(captain),
                     !.starters = IF f = "substitutes" THEN <<1>> ELSE <<>>]]

InitGroup ==
    /\ run \in {[p \in Operators |-> IF p = 1 THEN AtGroupPrompt(f, c) ELSE IdleRun] :
                  f \in {"starters", "substitutes"}, c \in Members}
    /\ fin = [p \in Operators |-> NoFin]
    /\ guild = InitGuild
    /\ granted = {}
    /\ store = StoreWith(ExistingTeam)
    /\ tx = NoTx
    /\ inbox \in {[msg |-> m, env |-> e, read |-> FALSE] :
                    m \in GroupMessages, e \in {en \in Envs : en.create = "ok"}}
    /\ cmd = [p \in Operators |-> NoCmd]

NextGroup == InboxReply(1) \/ ConfirmReply(1) \/ PostCollectStep(1)

SpecGroup == InitGroup /\ [][NextGroup]_vars

\* ------------------------------------------------------- sibling commands

\* The semester strings as text
SemesterText ==
    ("Fall" :> <<"F", "a", "l", "l">>)
    @@ ("Summer" :> <<"S", "u", "m", "m", "e", "r">>)
    @@ ("Spring" :> <<"S", "p", "r", "i", "n", "g">>)

\* SELECT team_nick, year, semester, seniority FROM teams WHERE archived = FALSE
\*   ORDER BY year DESC, semester DESC, seniority DESC, team_nick ASC
\* (texts compare letter by letter; a NULL nickname sorts last; rows equal in
\* all four keys come in the order of their team_id)
ActiveTeams(w) ==
    LET Letters == <<"a", "b", "c", "d", "e", "f", "g", "h", "i", "j", "k", "l", "m",
                     "n", "o", "p", "q", "r", "s", "t", "u", "v", "w", "x", "y", "z">>
        Code(c) == IF \E i \in 1..Len(Letters) : Letters[i] = LowerChar(c)
                   THEN CHOOSE i \in 1..Len(Letters) : Letters[i] = LowerChar(c)
                   ELSE 0
        TextLess(a, b) ==
            LET differ == {i \in 1..Len(a) : i <= Len(b) /\ a[i] # b[i]}
            IN  IF differ = {} THEN Len(a) < Len(b)
                ELSE Code(a[SetMin(differ)]) < Code(b[SetMin(differ)])
        Before(a, b) ==
            IF a.year # b.year THEN a.year > b.year
            ELSE IF a.semester # b.semester
            THEN TextLess(SemesterText[b.semester], SemesterText[a.semester])
            ELSE IF a.seniority # b.seniority THEN a.seniority > b.seniority
            ELSE IF a.team_nick = None /\ b.team_nick = None
            THEN a.team_id <= b.team_id
            ELSE IF a.team_nick = None \/ b.team_nick = None THEN b.team_nick = None
            ELSE \/ TextLess(a.team_nick[1], b.team_nick[1])
                 \/ /\ ~TextLess(b.team_nick[1], a.team_nick[1])
                    /\ a.team_id <= b.team_id
        RECURSIVE Ordered(_)
        Ordered(rows) ==
            IF rows = {} THEN <<>>
            ELSE LET first == CHOOSE a \in rows : \A b \in rows : Before(a, b)
                 IN  <<first>> \o Ordered(rows \ {first})
        pick == Ordered({t \in w.teams : ~t.archived})
    IN  [i \in 1..Len(pick) |->
            [team_nick |-> pick[i].team_nick, year |-> pick[i].year,
             semester |-> pick[i].semester, seniority |-> pick[i].seniority]]

\* A line of the embed that leaves the year out
TeamLineNoYear(team) ==
    <<"bullet", " ", "*", "*">> \o (IF team.team_nick = None THEN NoneText ELSE team.team_nick[1])
    \o <<"*", "*", " ", "(">> \o SemesterText[team.semester]
    \o <<")", " ", "-", " ", "S", "e", "n", "i", "o", "r", "i", "t", "y", ":", " ">> \o StrOf(team.seniority) \o <<"\n">>

\* The f-string list_teams appends for one team (a NULL nickname reads "None";
\* "bullet" is the one character U+2022)
TeamLine(team) ==
    <<"bullet", " ", "*", "*">> \o (IF team.team_nick = None THEN NoneText ELSE team.team_nick[1])
    \o <<"*", "*", " ", "(">> \o SemesterText[team.semester] \o <<" ">> \o StrOf(team.year)
    \o <<")", " ", "-", " ", "S", "e", "n", "i", "o", "r", "i", "t", "y", ":", " ">> \o StrOf(team.seniority) \o <<"\n">>

\* An except clause of list_teams that swallows the exception and stays silent
OnListErrorSilent(exc) == <<>>

\* The except clause of list_teams: the message it sends for the exception
OnListError(exc) ==
    <<[kind |-> "text", content |-> <<"A", "n", " ", "e", "r", "r", "o", "r", " ", "o", "c", "c", "u", "r", "r", "e", "d", ":", " ">> \o exc]>>

\* list_teams after the query returned `teams`: the messages it sends
OnListRows(teams) ==
    LET RECURSIVE Description(_)
        Description(ts) ==
            IF ts = <<>> THEN <<>>
            ELSE Description(SubSeq(ts, 1, Len(ts) - 1)) \o TeamLine(ts[Len(ts)])
    IN  IF teams = <<>>
        THEN <<[kind |-> "text", content |-> <<"N", "o", " ", "a", "c", "t", "i", "v", "e", " ", "t", "e", "a", "m", "s", " ", "f", "o", "u", "n", "d", ".">>]>>
        ELSE <<[kind |-> "embed", title |-> <<"A", "c", "t", "i", "v", "e", " ", "T", "e", "a", "m", "s">>,
                description |-> Description(teams)]>>

\* /list_teams (list_teams.py:11-31), from the command to its only reply: the
\* query answers with the rows or raises
ListTeams(p) ==
    /\ cmd[p].pc = "idle"
    /\ \E fails \in BOOLEAN, exc \in {<<"C", "o", "n", "n", "e", "c", "t", "i", "o", "n", " ", "L", "o", "s", "t">>} :
          cmd' = [cmd EXCEPT ![p] =
                    IF fails
                    THEN [NoCmd EXCEPT !.name = "list", !.pc = "done",
                                       !.failures = {exc}, !.sent = OnListError(exc)]
                    ELSE [NoCmd EXCEPT !.name = "list", !.pc = "done",
                                       !.rows = ActiveTeams(store),
                                       !.sent = OnListRows(ActiveTeams(store))]]
    /\ UNCHANGED <<run, fin, guild, granted, store, tx, inbox>>


\* archive_team up to `await interaction.response.defer` (archive_team.py:13-24):
\* the two refusals, or the call goes on to its query
OnArchiveCommand(inv, team_nick, move_to_archives) ==
    IF ~inv.guild
    THEN [NoCmd EXCEPT !.name = "archive", !.pc = "done", !.sent = <<"server_only">>]
    ELSE IF ~inv.cog \/ ~inv.admin
    THEN [NoCmd EXCEPT !.name = "archive", !.pc = "done", !.sent = <<"no_permission">>]
    ELSE [NoCmd EXCEPT !.name = "archive", !.pc = "a_query", !.nick = team_nick,
                       !.move = move_to_archives]

\* SELECT * FROM teams WHERE team_nick = $1 AND archived = FALSE
MatchingTeams(w, team_nick) ==
    LET RECURSIVE Listed(_)
        Listed(rows) ==
            IF rows = {} THEN <<>>
            ELSE LET first == CHOOSE a \in rows : \A b \in rows : a.team_id <= b.team_id
                 IN  <<first>> \o Listed(rows \ {first})
    IN  Listed({t \in w.teams : t.team_nick = Some(team_nick) /\ ~t.archived})

\* An archive_team that takes the first of several matching teams
OnArchiveRowsFirst(c, teams) ==
    IF teams = <<>> THEN [c EXCEPT !.pc = "done", !.rows = teams, !.sent = <<"not_found">>]
    ELSE [c EXCEPT !.pc = "a_update", !.rows = teams]

\* archive_team.py:28-39: what the call does with the rows of its query
OnArchiveRows(c, teams) ==
    IF teams = <<>> THEN [c EXCEPT !.pc = "done", !.rows = teams, !.sent = <<"not_found">>]
    ELSE IF Len(teams) > 1
    THEN [c EXCEPT !.pc = "done", !.rows = teams, !.sent = <<"multiple">>]
    ELSE [c EXCEPT !.pc = "a_update", !.rows = teams]

\* UPDATE teams SET archived = TRUE WHERE team_id = $1
ArchiveRecord(w, team_id) ==
    [w EXCEPT !.teams = {IF t.team_id = team_id THEN [t EXCEPT !.archived = TRUE] ELSE t :
                           t \in w.teams}]

\* /archive_team is invoked
ArchiveStart(p) ==
    /\ cmd[p].pc = "idle"
    /\ \E inv \in Invocations, team_nick \in {<<"o">>, <<"x">>}, move \in BOOLEAN :
          cmd' = [cmd EXCEPT ![p] = OnArchiveCommand(inv, team_nick, move)]
    /\ UNCHANGED <<run, fin, guild, granted, store, tx, inbox>>

\* The SELECT of archive_team.py:27 answers, or raises
ArchiveQuery(p) ==
    /\ cmd[p].pc = "a_query"
    /\ \E ok \in BOOLEAN :
          cmd' = [cmd EXCEPT ![p] =
                    IF ok THEN OnArchiveRows(@, MatchingTeams(store, @.nick))
                    ELSE [@ EXCEPT !.pc = "done", !.raised = TRUE]]
    /\ UNCHANGED <<run, fin, guild, granted, store, tx, inbox>>

\* The UPDATE of archive_team.py:42 is executed, or raises; then the channel and
\* the role are looked up and the loop over role.members begins (lines 46-51)
ArchiveUpdate(p) ==
    /\ cmd[p].pc = "a_update"
    /\ \E ok \in BOOLEAN :
          IF ok
          THEN LET team == cmd[p].rows[1]
                   channel == {ch \in guild.channels : ch.id = team.channel_id}
                   role == {ro \in guild.roles : ro.id = team.role_id}
                   both == channel # {} /\ role # {}
               IN  /\ store' = ArchiveRecord(store, team.team_id)
                   /\ cmd' = [cmd EXCEPT ![p] =
                        [@ EXCEPT !.pc = IF both THEN "a_members" ELSE "a_move",
                                  !.channel = IF channel = {} THEN None
                                              ELSE Some(team.channel_id),
                                  !.role = IF role = {} THEN None ELSE Some(team.role_id),
                                  !.todo = IF both
                                           THEN {m \in Members : <<m, team.role_id>> \in granted}
                                           ELSE {}]]
          ELSE /\ cmd' = [cmd EXCEPT ![p] = [@ EXCEPT !.pc = "done", !.raised = TRUE]]
               /\ store' = store
    /\ UNCHANGED <<run, fin, guild, granted, tx, inbox>>

\* One pass of the loop over role.members (archive_team.py:51-62):
\* set_permissions and remove_roles succeed, or one of them raises
ArchiveMember(p) ==
    /\ cmd[p].pc = "a_members"
    /\ \E member \in cmd[p].todo, ok \in BOOLEAN :
          /\ cmd' = [cmd EXCEPT ![p].todo = @ \ {member},
                                ![p].failures = IF ok THEN @ ELSE @ \cup {<<"member", member>>}]
          /\ granted' = IF ok THEN granted \ {<<member, cmd[p].role[1]>>} ELSE granted
    /\ UNCHANGED <<run, fin, guild, store, tx, inbox>>

\* role.delete (archive_team.py:63-69): it succeeds or raises
ArchiveRole(p) ==
    /\ cmd[p].pc = "a_members"
    /\ cmd[p].todo = {}
    /\ \E ok \in BOOLEAN :
          /\ cmd' = [cmd EXCEPT ![p].pc = "a_move",
                                ![p].failures = IF ok THEN @ ELSE @ \cup {<<"role_delete">>}]
          /\ guild' = IF ok THEN [guild EXCEPT !.roles = {ro \in @ : ro.id # cmd[p].role[1]}]
                      ELSE guild
          /\ granted' = IF ok THEN {g \in granted : g[2] # cmd[p].role[1]} ELSE granted
    /\ UNCHANGED <<run, fin, store, tx, inbox>>

\* archive_team.py:71-86: the channel is moved to the Archives category, which
\* is created when the guild has none (either call may raise), and the reply
\* is sent
ArchiveMove(p) ==
    /\ cmd[p].pc = "a_move"
    /\ \E ok \in BOOLEAN :
          LET archives == FindByName(guild.categories, <<"a", "r", "c", "h", "i", "v", "e", "s">>)
              g1 == IF archives = {} THEN CreateEntity(guild, "category", <<"A", "r", "c", "h", "i", "v", "e", "s">>, 0)
                    ELSE guild
              target == IF archives = {} THEN guild.next.category ELSE Pick(archives).id
              moved == [g1 EXCEPT !.channels =
                          {IF ch.id = cmd[p].channel[1] THEN [ch EXCEPT !.category = target]
                           ELSE ch : ch \in @}]
              acts == cmd[p].move /\ cmd[p].channel # None
          IN  /\ guild' = IF acts /\ ok THEN moved ELSE guild
              /\ cmd' = [cmd EXCEPT ![p].pc = "done", ![p].sent = <<"archived">>,
                           ![p].failures = IF acts /\ ~ok THEN @ \cup {<<"move">>} ELSE @]
    /\ UNCHANGED <<run, fin, granted, store, tx, inbox>>

\* Teams the store can hold: two active teams share the nickname "o", one team
\* has no nickname, one is archived already
TeamSamples ==
    {ExistingTeam,
     [ExistingTeam EXCEPT !.team_id = 2, !.team_nick = Some(<<"x">>),
                          !.role_id = FreshIds.role, !.year = 2025, !.semester = "Fall",
                          !.seniority = 0],
     [ExistingTeam EXCEPT !.team_id = 3, !.role_id = Ids.unknown, !.year = 2025,
                          !.semester = "Summer"],
     [ExistingTeam EXCEPT !.team_id = 4, !.team_nick = None, !.channel_id = Ids.unknown,
                          !.year = 2025, !.semester = "Fall"],
     [ExistingTeam EXCEPT !.team_id = 5, !.team_nick = Some(<<"x">>), !.archived = TRUE]}

\* Operators call /list_teams and /archive_team on a store of committed teams;
\* member 1 holds the roles of the teams.
InitTeams ==
    /\ run = [p \in Operators |-> IdleRun]
    /\ fin = [p \in Operators |-> NoFin]
    /\ guild = CreateEntity(InitGuild, "role", <<"n">>, 0)
    /\ granted = {<<1, Ids.role>>, <<1, FreshIds.role>>}
    /\ store \in {[teams |-> ts, players |-> {1},
                   team_members |-> {[team_id |-> t.team_id, member |-> 1,
                                      status |-> "starter"] : t \in ts}] :
                    ts \in {s \in SUBSET TeamSamples :
                              /\ \E t \in s : t.archived
                              /\ Cardinality(s) = 1 \/ \E t \in s : t.team_nick = None}}
    /\ tx = NoTx
    /\ inbox = NoInbox
    /\ cmd = [p \in Operators |-> NoCmd]

NextTeams ==
    \E p \in Operators :
        \/ ListTeams(p)
        \/ ArchiveStart(p)
        \/ ArchiveQuery(p)
        \/ ArchiveUpdate(p)
        \/ ArchiveMember(p)
        \/ ArchiveRole(p)
        \/ ArchiveMove(p)

SpecTeams == InitTeams /\ [][NextTeams]_vars


\* ----------------------------------------------------- shared channel

\* A check that takes every message of the channel, whoever wrote it
ReplyCheckAnyAuthor(p, ev) == ev.channel = "here"

\* check of _wait_for_reply and, with _should_exit, of _wait_for_exit_signal:
\* the message is by the run's operator, in the channel of the command (every
\* run of this model was started in the channel "here")
ReplyCheck(p, ev) == ev.author = p /\ ev.channel = "here"

\* bot.wait_for("message", check=...): the message event ev reaches every wait
\* whose check accepts it, and the run behind the wait goes on
Dispatch(runs, g, ev, e) ==
    LET Handle(r, gg, p) ==
            IF r.pc \in {"ask", "confirm", "review"} /\ ReplyCheck(p, ev)
            THEN LET res == OnReply(r, gg, ev.msg, e)
                 IN  Result(Received(res.run, ev.msg), res.guild)
            ELSE IF /\ r.pc = "semester" /\ r.sem.exit = "pending"
                    /\ ReplyCheck(p, ev) /\ ShouldExit(ev.msg.content)
            THEN Result(Received(SemExitDone(r, TRUE), ev.msg), gg)
            ELSE Result(r, gg)
        RECURSIVE Go(_, _, _)
        Go(p, rs, gg) ==
            IF p > NumOperators THEN [runs |-> rs, guild |-> gg]
            ELSE Go(p + 1, [rs EXCEPT ![p] = Handle(rs[p], gg, p).run],
                    Handle(rs[p], gg, p).guild)
    IN  Go(1, runs, g)

\* The messages written in the guild while the runs wait
MessageEvents ==
    [author : Operators, channel : {"here", "elsewhere"},
     msg : {Msg(ExitText), Msg(<<"y">>), Msg(<<"n">>), Msg(<<"1">>),
            Msg(<<"2", "0", "2", "5">>)}]

\* Somebody writes a message
MessageEvent ==
    /\ \E ev \in MessageEvents, e \in {[create |-> "ok", httpFail |-> {}]} :
          /\ run' = Dispatch(run, guild, ev, e).runs
          /\ guild' = Dispatch(run, guild, ev, e).guild
    /\ UNCHANGED <<cmd, inbox, fin, granted, store, tx>>

\* SemesterSelect._select_callback up to self.stop(), for a selection by `user`
\* on the view of the run of `owner`
OnSelect(r, owner, user, v) == IF user # owner THEN r ELSE SemSelect(r, v)

\* Somebody selects an option on the view of a run
SelectEvent ==
    /\ \E owner \in Operators, user \in Operators, v \in SemesterInputs :
          /\ run[owner].pc = "semester"
          /\ run[owner].sem.view = "pending"
          /\ SetRun(owner, OnSelect(run[owner], owner, user, v))
    /\ UNCHANGED <<cmd, inbox, fin, guild, granted, store, tx>>

\* Every operator runs the wizard in the same channel, each at the captain's
\* prompt with the guild's existing role, category and channel in the draft.
InitShared ==
    /\ run = [p \in Operators |->
                [IdleRun EXCEPT !.pc = "ask", !.fld = "captain",
                    !.draft = [EmptyDraft EXCEPT !.team_nick = Some(<<"x">>),
                                 !.role = Some(Ids.role),
                                 !.category = Some(Ids.category),
                                 !.channel = Some(Ids.text)]]]
    /\ fin = [p \in Operators |-> NoFin]
    /\ guild = InitGuild
    /\ granted = {}
    /\ store = StoreWith(ExistingTeam)
    /\ tx = NoTx
    /\ inbox = NoInbox
    /\ cmd = [p \in Operators |-> NoCmd]

NextShared ==
    \/ MessageEvent
    \/ SelectEvent
    \/ \E p \in Operators :
          \/ ReplyTimeout(p)
          \/ PostCollectStep(p)
          \/ SemesterViewStop(p)
          \/ SemesterViewTimeout(p)
          \/ SemesterExitTimeout(p)
          \/ SemesterResume(p)
          \/ SemesterLateSelect(p)

SpecShared == InitShared /\ [][NextShared]_vars


\* ------------------------------------------------------ silent operator

\* Runs the operator has left alone: at the first prompt, at the captain's
\* prompt, at the captain's confirmation, at the semester selector before and
\* after a selection, at the review prompt, at a prompt entered from review,
\* and after the "confirm" that leaves review (with a draft on the guild's
\* existing entities and with one on a new role)
QuietSamples ==
    LET quiet == [create |-> "ok", httpFail |-> {}]
        atCaptain == [IdleRun EXCEPT !.pc = "ask", !.fld = "captain",
                        !.draft = [EmptyDraft EXCEPT !.team_nick = Some(<<"x">>),
                                     !.role = Some(Ids.role),
                                     !.category = Some(Ids.category),
                                     !.channel = Some(Ids.text)]]
        atYear == [IdleRun EXCEPT !.pc = "ask", !.fld = "year",
                     !.draft = [SampleDraft(Ids.role, 1, <<1>>, <<>>) EXCEPT
                                  !.year = None, !.semester = None, !.seniority = None]]
        atSemester == OnReply(atYear, InitGuild, Msg(<<"2", "0", "2", "5">>), quiet).run
        atReview(role) == [IdleRun EXCEPT !.pc = "review",
                             !.draft = SampleDraft(role, 1, <<1>>, <<>>)]
    IN  {[IdleRun EXCEPT !.pc = "ask"],
         atCaptain,
         OnReply(atCaptain, InitGuild, Msg(<<"1">>), quiet).run,
         atSemester,
         SemSelect(atSemester, "Fall"),
         atReview(Ids.role),
         OnReply(atReview(Ids.role), InitGuild, Msg(<<"y", "e", "a", "r">>), quiet).run,
         OnReply(atReview(Ids.role), InitGuild, Msg(CONFIRM_KEYWORD), quiet).run,
         OnReply(atReview(FreshIds.role), InitGuild, Msg(CONFIRM_KEYWORD), quiet).run}

InitQuiet ==
    /\ run \in [Operators -> QuietSamples]
    /\ fin = [p \in Operators |-> NoFin]
    /\ guild = CreateEntity(InitGuild, "role", <<"n">>, 0)
    /\ granted = {}
    /\ store = StoreWith(ExistingTeam)
    /\ tx = NoTx
    /\ inbox = NoInbox
    /\ cmd = [p \in Operators |-> NoCmd]

\* What a run does without its operator: its timers, the end of the selector's
\* callback, the semester step's resumption and _finalize_team
Unattended(p) ==
    \/ ReplyTimeout(p)
    \/ SemesterViewStop(p)
    \/ SemesterViewTimeout(p)
    \/ SemesterExitTimeout(p)
    \/ SemesterResume(p)
    \/ Finalize(p)

NextQuiet == \E p \in Operators : Unattended(p)

\* The event loop fires every timer and resumes every coroutine that can go
\* on; the store and the platform answer every call
SpecQuiet ==
    /\ InitQuiet
    /\ [][NextQuiet]_vars
    /\ \A p \in Operators :
          /\ WF_vars(ReplyTimeout(p))
          /\ WF_vars(SemesterViewStop(p))
          /\ WF_vars(SemesterViewTimeout(p))
          /\ WF_vars(SemesterExitTimeout(p))
          /\ WF_vars(SemesterResume(p))
          /\ WF_vars(Finalize(p))

\* ------------------------------------------------------------------ claims

InGroup(member, group) == \E i \in 1..Len(group) : group[i] = member

\* The positions of a run inside _finalize_team
FinalizePcs ==
    {"finalize", "tx_begin", "tx_check", "tx_insert", "tx_players", "tx_members",
     "tx_commit", "grant"}

\* C1: once one of the run's waits (a field prompt, a yes/no confirmation, the
\* semester selector, the review prompt) has received a cancellation token,
\* the run is cancelled (or is the semester step about to resume into the
\* cancellation), _finalize_team was not entered and no row was written.
C1_CancelTokenAborts ==
    \A p \in Operators :
        run[p].gotExit =>
            /\ \/ run[p].pc = "done" /\ run[p].outcome = "cancelled"
               \/ /\ run[p].pc = "semester"
                  /\ run[p].sem.exit = "true"
                  /\ SemResume(run[p]).outcome = "cancelled"
            /\ fin[p] = NoFin
            /\ tx = NoTx
            /\ store = StoreWith(ExistingTeam)

\* A run cancelled by a token after it had already created a channel
C1_Witness ==
    /\ run[1].gotExit
    /\ run[1].outcome = "cancelled"
    /\ guild.next.channel > FreshIds.channel

\* C2: a run is inside _finalize_team only with role, category, channel,
\* captain, year, semester and seniority set and starters non-empty, so the
\* assert at its top holds.
C2_FinalizeOnlyWhenComplete ==
    \A p \in Operators :
        run[p].pc \in FinalizePcs =>
            LET d == run[p].draft
            IN  /\ d.role # None /\ d.category # None /\ d.channel # None
                /\ d.captain # None /\ d.year # None /\ d.semester # None
                /\ d.seniority # None
                /\ d.starters # <<>>
                /\ AssertDraft(d)

\* Finalize is entered with the two optional fields empty and seniority 0
C2_Witness ==
    /\ run[1].pc = "finalize"
    /\ run[1].draft.team_nick = None
    /\ run[1].draft.substitutes = <<>>
    /\ run[1].draft.seniority = Some(0)

\* C3: when _finalize_team starts, the draft's captain is in exactly one of
\* draft.starters and draft.substitutes.
C3_CaptainInExactlyOneGroup ==
    \A p \in Operators :
        run[p].pc = "finalize" =>
            LET d == run[p].draft
            IN  InGroup(d.captain[1], d.starters) # InGroup(d.captain[1], d.substitutes)
\* A team record carries the draft's (role id, category id, channel id)
SameTriple(t, d) ==
    /\ t.role_id = d.role[1]
    /\ t.category_id = d.category[1]
    /\ t.channel_id = d.channel[1]

\* C4: a finalize attempt that runs its conflict query when the store already
\* holds a committed, non-archived team with the draft's (role id, category
\* id, channel id) ends with the conflict error, and the teams, players and
\* team_members tables are left exactly as they were.
C4_SecondAttemptBlocked ==
    [][\A p \in Operators :
          ( /\ run[p].pc = "tx_check"
            /\ run'[p] # run[p]
            /\ \E t \in store.teams : SameTriple(t, run[p].draft) /\ ~t.archived )
          => /\ run'[p].pc = "done"
             /\ run'[p].outcome = "blocked_conflict"
             /\ store' = store
             /\ tx' = NoTx
             /\ fin'[p] = NoFin]_vars

\* Starting from an empty store, operator 1 committed its team and finished,
\* and operator 2's attempt was then blocked by the conflict query
C4_Witness ==
    /\ run[1].outcome = "summary"
    /\ fin[1].team_id = 1
    /\ run[2].outcome = "blocked_conflict"
    /\ Cardinality(store.teams) = 1

\* C5: whatever the interleaving of the operators' finalizations, the store
\* never holds two non-archived team records with the same (role id, category
\* id, channel id).
C5_OneTeamPerTriple ==
    \A t1, t2 \in store.teams :
        ( /\ t1 # t2
          /\ ~t1.archived /\ ~t2.archived
          /\ t1.role_id = t2.role_id
          /\ t1.category_id = t2.category_id
          /\ t1.channel_id = t2.channel_id ) => FALSE

\* Two finalizations race on one triple: operator 1 is about to commit its
\* team while operator 2, whose conflict query on the committed store would
\* find nothing, waits for its transaction
C5_Witness ==
    /\ tx.owner = 1
    /\ run[1].pc = "tx_commit"
    /\ run[2].pc = "tx_begin"
    /\ \E t \in tx.work.teams : t.team_id = fin[1].team_id /\ SameTriple(t, run[2].draft)
    /\ ConflictRows(store, run[2].draft) = {}

\* The members whose add_roles call raised
FailedMembers(p) ==
    {fin[p].attempts[i].member :
        i \in {j \in 1..Len(fin[p].attempts) : fin[p].attempts[j].result # "ok"}}

\* C7: once the transaction has committed, whatever subset of the involved
\* members' role grants fails, the team record and its membership rows stay in
\* the store, the run ends with the summary, and the warnings list has exactly
\* one entry per member whose grant failed, naming that member.
C7_GrantFailuresAreWarnings ==
    \A p \in Operators :
        /\ run[p].pc = "grant" =>
              /\ \E t \in store.teams : t.team_id = fin[p].team_id
              /\ \A member \in Range(run[p].draft.starters) \cup Range(run[p].draft.substitutes) :
                    \E row \in store.team_members :
                        row.team_id = fin[p].team_id /\ row.member = member
        /\ fin[p].team_id # 0 =>
              /\ run[p].pc \in {"tx_players", "tx_members", "tx_commit", "grant", "done"}
              /\ run[p].pc = "done" =>
                    /\ run[p].outcome = "summary"
                    /\ \E t \in store.teams : t.team_id = fin[p].team_id
                    /\ fin[p].remaining = {}
              /\ Len(fin[p].warnings) = Cardinality(FailedMembers(p))
              /\ \A member \in FailedMembers(p) :
                    Cardinality({i \in 1..Len(fin[p].warnings) :
                                    fin[p].warnings[i].member = member}) = 1

\* A run ended with the summary after the grants of both involved members
\* failed, one with Forbidden and one with another HTTPException
C7_Witness ==
    /\ run[1].outcome = "summary"
    /\ Len(fin[1].warnings) = 2
    /\ {fin[1].warnings[i].kind : i \in 1..2} = {"forbidden", "http"}
    /\ \E t \in store.teams : t.team_id = fin[1].team_id
\* The ids the platform has handed out for created entities of one kind
CreatedIds(kind) == FreshIds[kind]..(guild.next[kind] - 1)

\* The run's store and role grants are as they were before the run
NoStoreTrace(p) ==
    /\ store = StoreWith(ExistingTeam)
    /\ tx = NoTx
    /\ fin[p] = NoFin
    /\ granted = {}
    /\ run[p].draft = EmptyDraft

\* C6 as stated: a run that ended in cancellation leaves no store row and no
\* role, category or channel that a resolver created during the run.
C6_NothingPersists ==
    \A p \in Operators :
        run[p].outcome = "cancelled" =>
            /\ NoStoreTrace(p)
            /\ guild.roles = InitGuild.roles
            /\ guild.categories = InitGuild.categories
            /\ guild.channels = InitGuild.channels

\* C6: a run that ended in cancellation (cancel token, reply timeout or
\* selector timeout) leaves no store row and no draft, but every role,
\* category and channel that a resolver created during the run is still in the
\* guild, next to the entities that were there before.
C6_OnlyCreatedEntitiesPersist ==
    \A p \in Operators :
        run[p].outcome = "cancelled" =>
            /\ NoStoreTrace(p)
            /\ InitGuild.roles \subseteq guild.roles
            /\ InitGuild.categories \subseteq guild.categories
            /\ InitGuild.channels \subseteq guild.channels
            /\ {x.id : x \in guild.roles \ InitGuild.roles} = CreatedIds("role")
            /\ {x.id : x \in guild.categories \ InitGuild.categories} = CreatedIds("category")
            /\ {x.id : x \in guild.channels \ InitGuild.channels} = CreatedIds("channel")

\* A cancelled run that had created a role, a category and a channel
C6_Witness ==
    /\ run[1].outcome = "cancelled"
    /\ guild.roles # InitGuild.roles
    /\ guild.categories # InitGuild.categories
    /\ guild.channels # InitGuild.channels

\* The fixup step of a run whose captain is in neither group appends the
\* captain to the end of starters and leaves substitutes alone
FixupAppends(p) ==
    ( /\ run[p].pc = "fixup"
      /\ run'[p] # run[p]
      /\ ~InGroup(run[p].draft.captain[1], run[p].draft.starters)
      /\ ~InGroup(run[p].draft.captain[1], run[p].draft.substitutes) )
    => /\ run'[p].draft.starters = Append(run[p].draft.starters, run[p].draft.captain[1])
       /\ run'[p].draft.substitutes = run[p].draft.substitutes
       /\ run'[p].draft.captain = run[p].draft.captain
       /\ run'[p].notice

\* After the fixup appended the captain, a step makes the captain a substitute
CaptainBecomesSubstitute(p) ==
    /\ run[p].notice
    /\ run[p].draft.captain # None
    /\ run'[p].draft.captain # None
    /\ ~InGroup(run[p].draft.captain[1], run[p].draft.substitutes)
    /\ InGroup(run'[p].draft.captain[1], run'[p].draft.substitutes)

\* The step completes a review edit of field f
ReviewEditOf(p, f) == run[p].inReview /\ run[p].fld = f /\ run'[p].pc = "review"

\* C8 as stated: the fixup appends the captain to the end of starters and
\* leaves substitutes unchanged, and thereafter the captain gets into
\* substitutes only by a review edit of the substitutes field.
C8_OnlySubstitutesEdit ==
    [][\A p \in Operators :
          /\ FixupAppends(p)
          /\ CaptainBecomesSubstitute(p) => ReviewEditOf(p, "substitutes")]_vars

\* C8: the fixup appends exactly one copy of the captain to the end of
\* starters and leaves substitutes unchanged; thereafter the captain gets into
\* substitutes only by a review edit of the substitutes field that includes
\* the captain, or by a review edit of the captain field that names a member
\* already in substitutes.
C8_FixupAppendsCaptain ==
    [][\A p \in Operators :
          /\ FixupAppends(p)
          /\ CaptainBecomesSubstitute(p) =>
                \/ /\ ReviewEditOf(p, "substitutes")
                   /\ run'[p].draft.captain = run[p].draft.captain
                \/ /\ ReviewEditOf(p, "captain")
                   /\ run'[p].draft.substitutes = run[p].draft.substitutes]_vars

\* In review after the fixup appended the captain, the captain is a substitute
C8_Witness ==
    /\ run[1].pc = "review"
    /\ run[1].notice
    /\ InGroup(run[1].draft.captain[1], run[1].draft.substitutes)
    /\ InGroup(run[1].draft.captain[1], run[1].draft.starters)
\* The reply that names field f at the review prompt
FieldNameMsg(f) == Msg(CHOOSE name \in DOMAIN FieldNames : FieldNames[name] = f)

\* The review states one edit of field f can end in when the operator names f,
\* supplies v and answers yes to the confirmation, if there is one: the
\* edit's result for each answer of the platform
EditResults(r, g, f, v) ==
    LET named == OnReview(r, g, FieldNameMsg(f)).run
        asked == {OnReply(named, g, v, e) : e \in EnvsFor(named)}
        confirmed ==
            UNION {{OnReply(a.run, a.guild, Msg(<<"y", "e", "s">>), e) : e \in EnvsFor(a.run)} :
                     a \in {x \in asked : x.run.pc = "confirm"}}
    IN  {x \in asked \cup confirmed : x.run.pc = "review"}

\* The review state after the operator names the semester field and selects v
SemesterEdit(r, g, v) ==
    SemResume(SemViewDone(SemSelect(OnReview(r, g, FieldNameMsg("semester")).run, v)))

\* C9: in review, editing a field and supplying a value, then editing the same
\* field again and supplying the same value, leaves the draft and the rendered
\* summary as they were after the first of the two edits.
C9_ReviewEditIdempotent ==
    \A p \in Operators :
        run[p].pc = "review" =>
            /\ \A f \in Range(FieldOrder) \ {"semester"} :
                  \A v \in AskInputs(f) :
                      \A a \in EditResults(run[p], guild, f, v) :
                          \A b \in EditResults(a.run, a.guild, f, v) :
                              /\ b.run.draft = a.run.draft
                              /\ FormatSummary(b.run.draft, b.guild)
                                    = FormatSummary(a.run.draft, a.guild)
            /\ \A v \in SemesterOptions :
                  LET a == SemesterEdit(run[p], guild, v)
                      b == SemesterEdit(a, guild, v)
                  IN  /\ a.pc = "review" /\ b.pc = "review"
                      /\ b.draft = a.draft
                      /\ FormatSummary(b.draft, guild) = FormatSummary(a.draft, guild)

\* A review state that only an edit of the starters produces (the captain the
\* fixup appended is gone from starters), and that editing the starters again
\* with the same reply leaves as it is
C9_Witness ==
    /\ run[1].pc = "review"
    /\ run[1].notice
    /\ ~InGroup(run[1].draft.captain[1], run[1].draft.starters)
    /\ \E v \in AskInputs("starters") :
          \E a \in EditResults(run[1], guild, "starters", v) :
              /\ a.run.draft = run[1].draft
              /\ FormatSummary(a.run.draft, a.guild) = FormatSummary(run[1].draft, guild)

RECURSIVE FirstOccurrences(_)
\* The elements of a sequence in the order of their first occurrence
FirstOccurrences(seq) ==
    IF seq = <<>> THEN <<>>
    ELSE LET front == FirstOccurrences(SubSeq(seq, 1, Len(seq) - 1))
             last == seq[Len(seq)]
         IN  IF InGroup(last, front) THEN front ELSE Append(front, last)

RECURSIVE ResolvedIds(_, _)
\* The members the numeric tokens of a reply resolve to, in the tokens' order
ResolvedIds(tokens, e) ==
    IF tokens = <<>> THEN <<>>
    ELSE LET rest == ResolvedIds(Tail(tokens), e)
         IN  IF IsDigit(tokens[1]) /\ ResolveMember(IntOf(tokens[1]), e).t = "ok"
             THEN <<IntOf(tokens[1])>> \o rest
             ELSE rest

\* The identities a member-group reply names: the mentions, then the ids
NamedMembers(m, e) == m.mentions \o ResolvedIds(Tokens(Strip(m.content)), e)

\* C10: the list the member-group resolver builds from a reply, and returns
\* once the operator confirms it, holds each identity the reply names exactly
\* once, in the order of first occurrence with the mentions before the ids;
\* _dedupe_members then leaves it as it is.
C10_GroupDeduplicated ==
    [][\A p \in Operators :
          /\ ( /\ run'[p].pc = "confirm"
               /\ run'[p].pending.kind = "group" )
             => /\ run'[p].pending.members
                      = FirstOccurrences(NamedMembers(inbox'.msg, inbox'.env))
                /\ Cardinality(Range(run'[p].pending.members))
                      = Len(run'[p].pending.members)
          /\ ( /\ run[p].pc = "confirm"
               /\ run[p].pending.kind = "group"
               /\ run'[p].pc \in {"ask", "fixup"}
               /\ run'[p].fld # run[p].fld \/ run'[p].pc = "fixup" )
             => run'[p].draft[run[p].fld]
                    = FirstOccurrences(NamedMembers(inbox.msg, inbox.env))
          /\ ( /\ run[p].pc = "fixup"
               /\ run'[p].pc # "fixup" )
             => run'[p].draft.substitutes = run[p].draft.substitutes]_vars

\* The reply mentions member 1 and also gives the id 1 (and the id 2 twice);
\* the confirmed list is <<1, 2>>
C10_Witness ==
    /\ inbox.msg.mentions = <<1>>
    /\ inbox.msg.content = <<"2", ",", " ", "1", ",", " ", "2">>
    /\ inbox.env.httpFail = {}
    /\ run[1].pc = "fixup"
    /\ run[1].draft.substitutes = <<1, 2>>

\* C11: the semester step resumes once the cancellation wait or the selector
\* wait has completed. If the cancellation wait completed with a cancel
\* message the run is cancelled, even if an option was selected; otherwise a
\* selected option becomes the semester and only the semester changes; with
\* no option selected the run is cancelled and the prompt is not repeated.
C11_SemesterRace ==
    [][\A p \in Operators :
          ( /\ run[p].pc = "semester"
            /\ run'[p].pc # "semester" )
          => /\ run[p].sem.exit \in {"true", "false"} \/ run[p].sem.view = "done"
             /\ run[p].sem.exit = "true" =>
                   run'[p].pc = "done" /\ run'[p].outcome = "cancelled"
             /\ ( run[p].sem.exit # "true" /\ run[p].sem.value # None ) =>
                   /\ run'[p].outcome = "none"
                   /\ run'[p].pc \in {"ask", "review"}
                   /\ run'[p].draft = [run[p].draft EXCEPT !.semester = run[p].sem.value]
             /\ ( run[p].sem.exit # "true" /\ run[p].sem.value = None ) =>
                   run'[p].pc = "done" /\ run'[p].outcome = "cancelled"]_vars

\* Both waits have completed: an option was selected and the view stopped,
\* and the cancellation wait received a cancel message; resuming cancels
C11_Witness ==
    /\ run[1].pc = "semester"
    /\ run[1].sem.exit = "true"
    /\ run[1].sem.view = "done"
    /\ run[1].sem.value = Some("Fall")
    /\ SemResume(run[1]).outcome = "cancelled"

\* C12: once the reply timeout has elapsed at a plain reply wait (a field
\* prompt, a yes/no confirmation or the review prompt), the run is cancelled:
\* it is not at a prompt again, it did not advance, it did not enter
\* _finalize_team and it wrote nothing.
C12_TimeoutCancels ==
    \A p \in Operators :
        run[p].timedOut # "none" =>
            /\ run[p].pc = "done"
            /\ run[p].outcome = "cancelled"
            /\ fin[p] = NoFin
            /\ tx = NoTx
            /\ store = StoreWith(ExistingTeam)

\* The timeout elapsed at the review prompt and the run was cancelled
C12_Witness ==
    /\ run[1].timedOut = "review"
    /\ run[1].outcome = "cancelled"
    /\ ~run[1].gotExit

\* The step handles a reply at a field prompt or at a yes/no confirmation that
\* is neither a cancellation token nor the timeout
FieldReplyStep(p) ==
    /\ run[p].pc \in {"ask", "confirm"}
    /\ run'[p] # run[p]
    /\ ~run'[p].gotExit
    /\ run'[p].timedOut = "none"

\* C13: a reply at a field prompt or at a confirmation that is not a
\* cancellation never ends the run: either the resolver returns and the field
\* is set, or the wizard stays with the same field (at its prompt or at its
\* confirmation) with the draft unchanged.
C13_FailureKeepsField ==
    [][\A p \in Operators :
          FieldReplyStep(p) =>
             /\ run'[p].outcome = "none"
             /\ \/ /\ run'[p].pc \in {"ask", "confirm"}
                   /\ run'[p].fld = run[p].fld
                   /\ run'[p].draft = run[p].draft
                \/ \E value \in {run'[p].draft[run[p].fld]} :
                      run'[p].draft = [run[p].draft EXCEPT ![run[p].fld] = value]]_vars

\* The membership rows of team_id in the tables w are what the draft's
\* starters and then its substitutes leave: one row per member, with status
\* sub for a substitute (also when the member is a starter too)
MembershipOf(w, team_id, d) ==
    LET rows == {row \in w.team_members : row.team_id = team_id}
    IN  /\ {row.member : row \in rows} = Range(d.starters) \cup Range(d.substitutes)
        /\ \A member \in Range(d.starters) \cup Range(d.substitutes) :
              /\ Cardinality({row \in rows : row.member = member}) = 1
              /\ \A row \in rows :
                    row.member = member =>
                        row.status = IF InGroup(member, d.substitutes) THEN "sub"
                                     ELSE "starter"

\* C14: when the transaction is about to commit, and after it committed, the
\* team has exactly one membership row per starter and substitute, and a
\* member who is in both groups has the status written last (sub).
C14_MembershipRows ==
    \A p \in Operators :
        /\ run[p].pc = "tx_commit" => MembershipOf(tx.work, fin[p].team_id, run[p].draft)
        /\ run[p].pc = "grant" => MembershipOf(store, fin[p].team_id, run[p].draft)

\* A committed team whose member 2 is a starter and a substitute: its one
\* membership row says sub
C14_Witness ==
    /\ run[1].pc = "grant"
    /\ InGroup(2, run[1].draft.starters)
    /\ InGroup(2, run[1].draft.substitutes)
    /\ [team_id |-> fin[1].team_id, member |-> 2, status |-> "sub"] \in store.team_members
    /\ [team_id |-> fin[1].team_id, member |-> 1, status |-> "starter"] \in store.team_members

\* The positions of a run inside db_transaction
TxPcs == {"tx_check", "tx_insert", "tx_players", "tx_members"}

\* C15: while a run is inside db_transaction the committed tables do not
\* change; when a step of it raises (a conflict is found, the insert returns
\* no row, or an insert or upsert fails) the run ends reporting the block or
\* the failure, the tables are as before the attempt and the transaction is
\* gone; a run that has ended takes no further step (no retry).
C15_FailureRollsBack ==
    [][\A p \in Operators :
          /\ ( run[p].pc \in TxPcs /\ run'[p].pc \in TxPcs ) => store' = store
          /\ ( run[p].pc \in TxPcs /\ run'[p].pc \notin TxPcs \cup {"tx_commit"} ) =>
                /\ run'[p].pc = "done"
                /\ run'[p].outcome \in {"blocked_conflict", "blocked_insert", "failed"}
                /\ run[p].pc = "tx_check" <=> run'[p].outcome = "blocked_conflict"
                /\ store' = store
                /\ tx' = NoTx
                /\ fin'[p] = NoFin
          /\ run[p].pc = "done" => run'[p] = run[p]]_vars

\* One attempt failed while writing and another was blocked by the conflict
\* query; the store is as it was before both
C15_Witness ==
    /\ run[1].outcome = "failed"
    /\ run[2].outcome = "blocked_conflict"
    /\ store = StoreWith(ExistingTeam)
    /\ tx = NoTx

\* The members add_roles was called for, in the order of the calls
AttemptedMembers(p) == [i \in 1..Len(fin[p].attempts) |-> fin[p].attempts[i].member]

\* C16: in the role-grant loop no member is attempted twice, the members
\* attempted and the members still to come are together exactly the distinct
\* members of captain, starters and substitutes, and the loop ends only when
\* every one of them was attempted; every role granted is the draft's role
\* granted to an attempted member.
C16_GrantOncePerMember ==
    \A p \in Operators :
        /\ Cardinality(Range(AttemptedMembers(p))) = Len(fin[p].attempts)
        /\ run[p].pc = "grant" =>
              LET d == run[p].draft
                  involved == Range(d.captain) \cup Range(d.starters) \cup Range(d.substitutes)
              IN  /\ Range(AttemptedMembers(p)) \cup fin[p].remaining = involved
                  /\ Range(AttemptedMembers(p)) \cap fin[p].remaining = {}
                  /\ \A i \in 1..Len(fin[p].attempts) :
                        fin[p].attempts[i].result = "ok" =>
                            <<fin[p].attempts[i].member, d.role[1]>> \in granted
        /\ ( run[p].pc = "done" /\ fin[p].team_id # 0 ) => fin[p].remaining = {}
        /\ \A pair \in granted :
              \E q \in Operators :
                  \E i \in 1..Len(fin[q].attempts) :
                      /\ fin[q].attempts[i].member = pair[1]
                      /\ fin[q].attempts[i].result = "ok"

\* Member 2 is captain, starter and substitute, member 1 a starter: the loop
\* is over after exactly two calls, one per member
C16_Witness ==
    /\ run[1].pc = "grant"
    /\ fin[1].remaining = {}
    /\ run[1].draft.captain = Some(2)
    /\ InGroup(2, run[1].draft.starters)
    /\ InGroup(2, run[1].draft.substitutes)
    /\ Len(fin[1].attempts) = 2
    /\ Range(AttemptedMembers(1)) = {1, 2}

\* The order the fields are to be filled in, and the fields that must be set
StatedOrder ==
    <<"team_nick", "role", "category", "channel", "captain", "starters",
      "substitutes", "year", "semester", "seniority">>
StatedIndex(f) == CHOOSE i \in 1..Len(StatedOrder) : StatedOrder[i] = f
RequiredFields ==
    {"role", "category", "channel", "captain", "starters", "year", "semester", "seniority"}

\* C17: on the first pass, while the wizard is at the prompt (or confirmation,
\* or selector) of a field, every required field before it in the stated
\* order is set and that field and every field after it are still unset; the
\* review state is entered only with seniority and every required field set.
C17_FieldsInOrder ==
    \A p \in Operators :
        LET r == run[p]
            d == r.draft
        IN  /\ ( r.pc \in {"ask", "confirm", "semester"} /\ ~r.inReview ) =>
                  \A f \in Range(StatedOrder) :
                      /\ StatedIndex(f) >= StatedIndex(r.fld) => d[f] = <<>>
                      /\ ( StatedIndex(f) < StatedIndex(r.fld) /\ f \in RequiredFields )
                            => d[f] # <<>>
            /\ r.pc = "fixup" =>
                  /\ \A f \in {"year", "semester", "seniority"} : d[f] = <<>>
                  /\ \A f \in {"role", "category", "channel", "captain", "starters"} :
                        d[f] # <<>>
            /\ r.pc = "review" => \A f \in RequiredFields : d[f] # <<>>

\* The first pass is at the last prompt: the optional label and substitutes
\* were skipped, every other field before seniority is set
C17_Witness ==
    /\ run[1].pc = "ask"
    /\ run[1].fld = "seniority"
    /\ ~run[1].inReview
    /\ run[1].draft.team_nick = None
    /\ run[1].draft.substitutes = <<>>
    /\ run[1].draft.semester = Some("Fall")
    /\ run[1].draft.seniority = None

\* What the review prompt does with the reply m: a reply that names a field
\* (in any case) starts that field's resolver with the draft as it is, the
\* reply "confirm" and no other goes on to _finalize_team, and any other reply
\* that is not a cancellation leaves the run where it is
ReviewReplyHandled(r, g, m) ==
    LET text == Lower(Strip(m.content))
        after == OnReply(r, g, m, [create |-> "ok", httpFail |-> {}])
    IN  /\ after.guild = g
        /\ after.run.pc = "finalize" <=> text = <<"c", "o", "n", "f", "i", "r", "m">>
        /\ after.run.pc = "finalize" => after.run.draft = r.draft
        /\ text \in DOMAIN FieldNames =>
              /\ after.run.pc \in {"ask", "semester"}
              /\ after.run.inReview
              /\ after.run.fld = FieldNames[text]
              /\ after.run.draft = r.draft
        /\ ( text \notin DOMAIN FieldNames
             /\ text # <<"c", "o", "n", "f", "i", "r", "m">>
             /\ ~IsCancelToken(m.content) ) => after.run = r

\* C18: at the review prompt a reply naming field f, in any case, re-runs the
\* resolver of f; while that resolver runs and when it returns, no draft
\* attribute other than f changes, and the draft changes only on the return
\* to the review prompt; an unrecognized reply leaves the run and the draft as
\* they are; only the reply "confirm" leads to _finalize_team.
C18_ReviewEditsOneField ==
    [][\A p \in Operators :
          /\ run[p].pc = "review" =>
                \A m \in ReviewInputs : ReviewReplyHandled(run[p], guild, m)
          /\ ( run[p].inReview /\ run'[p].outcome = "none" ) =>
                /\ \A f \in Range(FieldOrder) \ {run[p].fld} :
                      run'[p].draft[f] = run[p].draft[f]
                /\ run'[p].inReview =>
                      /\ run'[p].fld = run[p].fld
                      /\ run'[p].draft = run[p].draft
                /\ ~run'[p].inReview => run'[p].pc = "review"
          /\ ( run[p].pc # "review" /\ run'[p].pc = "finalize" ) => FALSE]_vars

\* Back at the review prompt after an edit: the captain is a member of
\* neither group, which the first pass never leaves so
C18_Witness ==
    /\ run[1].pc = "review"
    /\ ~run[1].inReview
    /\ ~InGroup(run[1].draft.captain[1], run[1].draft.starters)
    /\ ~InGroup(run[1].draft.captain[1], run[1].draft.substitutes)

\* The reply is one of the skip tokens
IsSkipToken(m) ==
    Lower(Strip(m.content)) \in {<<"n", "/", "a">>, <<"n", "a">>}

\* The handled reply named no member, and the run is at the prompt of `f`
\* again with that group still empty
AskedAgain(f) ==
    /\ run[1].pc = "ask"
    /\ run[1].fld = f
    /\ run[1].draft[f] = <<>>

\* The run went on past the substitutes prompt with an empty group
WentOnWithoutSubstitutes ==
    /\ run[1].pc = "fixup" \/ (run[1].pc = "ask" /\ run[1].fld = "year")
    /\ run[1].draft.substitutes = <<>>

\* C19 as stated: a member-group reply that resolves to no member is a
\* validation failure at the starters prompt, and yields the empty group at
\* the substitutes prompt (the run starts at the substitutes prompt exactly
\* when its starters are already set).
C19_EmptySubstitutesAccepted ==
    ( inbox.read /\ NamedMembers(inbox.msg, inbox.env) = <<>> ) =>
        IF run[1].draft.starters # <<>> THEN WentOnWithoutSubstitutes
        ELSE AskedAgain("starters")

\* C19: a member-group reply that resolves to no member is a validation
\* failure at the starters prompt and at the substitutes prompt alike; the
\* empty group results only from a skip token ("n/a" or "na") at the
\* substitutes prompt.
C19_EmptyGroupOnlyBySkip ==
    ( inbox.read /\ NamedMembers(inbox.msg, inbox.env) = <<>> ) =>
        IF run[1].draft.starters = <<>> THEN AskedAgain("starters")
        ELSE IF IsSkipToken(inbox.msg) THEN WentOnWithoutSubstitutes
        ELSE AskedAgain("substitutes")

\* The reply "x" at the substitutes prompt named no member and the prompt is
\* asked again
C19_Witness ==
    /\ inbox.read
    /\ inbox.msg.content = <<"x">>
    /\ inbox.msg.mentions = <<>>
    /\ run[1].draft.starters # <<>>
    /\ AskedAgain("substitutes")

\* Replies to the team label prompt: the prompt's inputs, a blank reply and
\* the short skip token
LabelReplies ==
    AskInputs("team_nick") \cup {Msg(<<" ">>), Msg(<<" ", "N", "a">>), Msg(<<"x", " ", "y", " ">>)}

\* The run after the label resolver returned `value` to run r
LabelSet(r, after, value) ==
    /\ after.draft = [r.draft EXCEPT !.team_nick = value]
    /\ after.outcome = "none"
    /\ IF r.inReview THEN after.pc = "review"
       ELSE after.pc = "ask" /\ after.fld = "role"

\* C20 as stated: at the team label prompt a reply that is empty after
\* trimming, like a skip token, sets draft.team_nick to None and the wizard
\* goes on; any other reply sets it to the trimmed text.
C20_EmptyLabelSkips ==
    \A p \in Operators :
        ( run[p].pc = "ask" /\ run[p].fld = "team_nick" ) =>
            \A m \in {x \in LabelReplies : ~IsCancelToken(x.content)} :
                LET after == OnReply(run[p], guild, m, [create |-> "ok", httpFail |-> {}]).run
                IN  IF Strip(m.content) = <<>> \/ IsSkipToken(m)
                    THEN LabelSet(run[p], after, None)
                    ELSE LabelSet(run[p], after, Some(Strip(m.content)))

\* C20: at the team label prompt a skip token ("n/a" or "na") sets
\* draft.team_nick to None and the wizard goes on; a reply that is empty after
\* trimming sets nothing and the prompt is asked again; any other reply sets
\* draft.team_nick to the trimmed text and the wizard goes on.
C20_EmptyLabelAsksAgain ==
    \A p \in Operators :
        ( run[p].pc = "ask" /\ run[p].fld = "team_nick" ) =>
            \A m \in {x \in LabelReplies : ~IsCancelToken(x.content)} :
                LET after == OnReply(run[p], guild, m, [create |-> "ok", httpFail |-> {}]).run
                IN  IF Strip(m.content) = <<>> THEN after = run[p]
                    ELSE IF IsSkipToken(m) THEN LabelSet(run[p], after, None)
                    ELSE LabelSet(run[p], after, Some(Strip(m.content)))

\* The label prompt was answered with " x " on the first pass and is asked
\* again from the review loop, where a blank reply leaves the run as it is
C20_Witness ==
    /\ run[1].pc = "ask"
    /\ run[1].fld = "team_nick"
    /\ run[1].inReview
    /\ run[1].draft.team_nick = Some(<<"x">>)
    /\ OnReply(run[1], guild, Msg(<<" ">>), [create |-> "ok", httpFail |-> {}]).run = run[1]

\* The invocations the permission gate must refuse: no guild, no Admin cog, or
\* is_admin answering false
Unauthorized(inv) == ~inv.guild \/ ~inv.cog \/ ~inv.admin

\* The run never reached a prompt or a wait, and left no trace
NeverStarted(p) ==
    /\ run[p].pc = "done"
    /\ run[p].draft = EmptyDraft
    /\ ~run[p].gotExit
    /\ run[p].timedOut = "none"
    /\ ~run[p].notice
    /\ fin[p] = NoFin
    /\ guild = InitGuild
    /\ store = StoreWith(ExistingTeam)
    /\ granted = {}
    /\ tx = NoTx

\* C21: an invocation without a guild, without the Admin cog or by a user
\* is_admin rejects is refused: the run ends at once as "refused", it never
\* reaches a prompt, it takes no further step, no entity is created and the
\* store is not written.
C21_UnauthorizedRefused ==
    \A p \in Operators :
        /\ run[p].pc = "idle" =>
              \A inv \in Invocations :
                  Unauthorized(inv) => OnCommand(run[p], inv) = EndRun(run[p], "refused")
        /\ run[p].outcome = "refused" =>
              /\ NeverStarted(p)
              /\ ~ENABLED (Collect(p) \/ Finalize(p))

\* A refused invocation
C21_Witness == run[1].outcome = "refused" /\ run[1].pc = "done"

\* sub in text
Contains(text, sub) ==
    \E i \in 0..(Len(text) - Len(sub)) : SubSeq(text, i + 1, i + Len(sub)) = sub

\* The list_teams calls whose query returned rows
ListedCalls == {p \in Operators : cmd[p].name = "list" /\ cmd[p].failures = {}}

\* C22: when the query of list_teams returns teams, the only reply is an embed
\* whose description contains every returned team's nickname (when it has
\* one), semester and year; when it returns no team, the only reply is the
\* plain "no active teams" text and no embed is sent.
C22_ListShowsEveryTeam ==
    \A p \in ListedCalls :
        LET teams == cmd[p].rows
            sent == cmd[p].sent
        IN  /\ cmd[p].pc = "done" /\ ~cmd[p].raised
            /\ Len(sent) = 1
            /\ IF teams = <<>>
               THEN /\ sent[1].kind = "text"
                    /\ Contains(Lower(sent[1].content), <<"n", "o", " ", "a", "c", "t", "i", "v", "e", " ", "t", "e", "a", "m", "s">>)
               ELSE /\ sent[1].kind = "embed"
                    /\ \A i \in 1..Len(teams) :
                          /\ teams[i].team_nick # None =>
                                Contains(sent[1].description, teams[i].team_nick[1])
                          /\ Contains(sent[1].description, SemesterText[teams[i].semester])
                          /\ Contains(sent[1].description, StrOf(teams[i].year))

\* A list of several teams, one of them without a nickname, was sent as an embed
C22_Witness ==
    \E p \in ListedCalls :
        /\ Len(cmd[p].rows) >= 3
        /\ \E i \in 1..Len(cmd[p].rows) : cmd[p].rows[i].team_nick = None
        /\ cmd[p].sent[1].kind = "embed"

\* C23: when the query of list_teams raises, the exception does not leave the
\* command: exactly one message is sent, it is a plain text saying that an
\* error occurred, and no embed is sent.
C23_ListErrorReported ==
    \A p \in Operators :
        cmd[p].name = "list" /\ cmd[p].failures # {} =>
            /\ cmd[p].pc = "done" /\ ~cmd[p].raised
            /\ Len(cmd[p].sent) = 1
            /\ cmd[p].sent[1].kind = "text"
            /\ Contains(Lower(cmd[p].sent[1].content), <<"e", "r", "r", "o", "r">>)

\* The query raised "Connection Lost" and the error message was sent
C23_Witness ==
    \E p \in Operators :
        /\ cmd[p].name = "list"
        /\ cmd[p].failures = {<<"C", "o", "n", "n", "e", "c", "t", "i", "o", "n", " ", "L", "o", "s", "t">>}
        /\ Contains(cmd[p].sent[1].content, <<"C", "o", "n", "n", "e", "c", "t", "i", "o", "n", " ", "L", "o", "s", "t">>)

\* The archive_team calls that went past their UPDATE
PastUpdate(p) ==
    /\ cmd[p].name = "archive"
    /\ cmd[p].pc \in {"a_members", "a_move"} \/ cmd[p].sent = <<"archived">>

\* What archive_team may do to the teams table in one step: nothing, or the one
\* record its query returned gets archived = TRUE by the call's UPDATE
ArchiveStepFrame ==
    /\ {t.team_id : t \in store'.teams} = {t.team_id : t \in store.teams}
    /\ store'.players = store.players
    /\ store'.team_members = store.team_members
    /\ \A t \in store.teams :
          t \notin store'.teams =>
              /\ [t EXCEPT !.archived = TRUE] \in store'.teams
              /\ store'.teams \ {[t EXCEPT !.archived = TRUE]} = store.teams \ {t}
              /\ \E p \in Operators :
                    /\ cmd[p].pc = "a_update" /\ cmd'[p].pc # "a_update"
                    /\ cmd[p].rows = <<t>>
                    /\ t.team_nick = Some(cmd[p].nick)

\* Where the calls stand: a refused call is over at once, the UPDATE is reached
\* only with exactly one matching active team, and the record a call archived
\* is archived whatever the later role and channel calls did
ArchiveCallsInv ==
    /\ \A inv \in Invocations, move \in BOOLEAN :
          Unauthorized(inv) =>
              /\ OnArchiveCommand(inv, <<"o">>, move).pc = "done"
              /\ OnArchiveCommand(inv, <<"o">>, move).rows = <<>>
    /\ \A p \in Operators :
          /\ cmd[p].pc = "a_update" =>
                /\ Len(cmd[p].rows) = 1
                /\ cmd[p].rows[1].team_nick = Some(cmd[p].nick)
                /\ ~cmd[p].rows[1].archived
          /\ cmd[p].name = "archive" /\ cmd[p].pc = "done" /\ Len(cmd[p].rows) # 1 =>
                cmd[p].sent # <<"archived">>
          /\ PastUpdate(p) =>
                /\ Len(cmd[p].rows) = 1
                /\ [cmd[p].rows[1] EXCEPT !.archived = TRUE] \in store.teams
                /\ cmd[p].rows[1] \notin store.teams

\* C30: archive_team changes the store only by its UPDATE, which runs only when
\* the query returned exactly one non-archived team of the given nickname and
\* sets archived on that record alone; a call refused for want of a guild, the
\* Admin cog or admin rights, and a call whose query matched no team or several,
\* changes nothing; the record stays archived when the role removal, the role
\* deletion or the channel move failed.
C30_ArchiveOnlyTheOneMatch == [](ArchiveCallsInv) /\ [][ArchiveStepFrame]_vars

\* A call archived its team although a member's role removal, the role deletion
\* and the channel move all failed
C30_Witness ==
    \E p \in Operators :
        /\ PastUpdate(p) /\ cmd[p].pc = "done"
        /\ {<<"role_delete">>, <<"move">>, <<"member", 1>>} \subseteq cmd[p].failures
        /\ [cmd[p].rows[1] EXCEPT !.archived = TRUE] \in store.teams

\* The semester step of the run can resume: asyncio.wait has a finished task
CanResume(r) ==
    r.pc = "semester" /\ (r.sem.exit \in {"true", "false"} \/ r.sem.view = "done")

\* C24: when the semester step ends, whichever way, the task that had not
\* finished is cancelled: afterwards neither the cancellation-message wait
\* nor the selection wait of that step is pending, and a selection made on
\* the old view later does not resume the step: the run's position, draft and
\* outcome stay as they are.
C24_LosingWaitCancelled ==
    /\ [](\A p \in Operators :
            /\ run[p].pc # "semester" =>
                  run[p].sem.exit # "pending" /\ run[p].sem.view # "pending"
            /\ CanResume(run[p]) =>
                  LET left == SemResume(run[p]).sem
                  IN  /\ run[p].sem.exit = "pending" => left.exit = "cancelled"
                      /\ run[p].sem.view = "pending" => left.view = "cancelled"
                      /\ SemResume(run[p]).pc # "semester")
    /\ [][\A p \in Operators :
            run[p].pc # "semester" /\ run[p].sem.view = "cancelled"
            /\ run'[p].sem.view = "done"
            => run'[p] = [run[p] EXCEPT !.sem = run'[p].sem]]_vars

\* The selection ended the step while the cancellation wait was pending: the
\* run is at the next prompt and that wait is cancelled
C24_Witness ==
    /\ run[1].pc = "ask" /\ run[1].fld = "seniority"
    /\ run[1].sem.exit = "cancelled"
    /\ run[1].sem.view = "done"
    /\ run[1].draft.semester = Some("Fall")

\* How a run ends without a committed team
UnsuccessfulOutcomes ==
    {"refused", "cancelled", "collect_failed", "blocked_conflict", "blocked_insert",
     "failed"}

\* The team the run's transaction inserted is in the committed store
Committed(p) == \E t \in store.teams : t.team_id = fin[p].team_id

\* C25: a run enters _finalize_team only from the review prompt and only on
\* the reply "confirm"; the committed store changes only when a run's
\* transaction commits; the role-grant loop is entered only by that commit, and
\* add_roles is called only inside the loop: a run that was refused or
\* cancelled, failed while collecting, was blocked or failed in the
\* transaction has attempted no grant.
C25_WritesAfterConfirmGrantsAfterCommit ==
    /\ [](\A p \in Operators :
            /\ run[p].pc = "review" =>
                  \A m \in ReviewInputs :
                      OnReview(run[p], guild, m).run.pc = "finalize" =>
                          Lower(Strip(m.content)) = CONFIRM_KEYWORD
            /\ run[p].outcome \in UnsuccessfulOutcomes =>
                  /\ fin[p].attempts = <<>> /\ fin[p].remaining = {}
                  /\ granted = {}
                  /\ store = StoreWith(ExistingTeam)
            /\ fin[p].attempts # <<>> \/ fin[p].remaining # {} =>
                  /\ run[p].pc = "grant" \/ run[p].outcome = "summary"
                  /\ Committed(p))
    /\ [][\A p \in Operators :
            /\ ( run'[p].pc \in FinalizePcs /\ run[p].pc \notin FinalizePcs ) =>
                  run[p].pc = "review" /\ run'[p].pc = "finalize"
            /\ ( run'[p].pc = "grant" /\ run[p].pc # "grant" ) =>
                  run[p].pc = "tx_commit" /\ tx.owner = p /\ store' = tx.work
            /\ store' # store =>
                  \E q \in Operators : run[q].pc = "tx_commit" /\ run'[q].pc = "grant"
            /\ ( fin'[p].attempts # fin[p].attempts \/ granted' # granted ) =>
                  \E q \in Operators : run[q].pc = "grant" /\ Committed(q)]_vars

\* A run that was confirmed in review committed its team and granted the role
C25_Witness ==
    /\ run[1].outcome = "summary"
    /\ Committed(1)
    /\ Cardinality(store.teams) = 2
    /\ granted # {}

\* The fields whose resolver asks for a yes/no confirmation
ConfirmedFields == {"role", "category", "channel", "captain", "starters", "substitutes"}

\* The resolver of field f returned `value` to its caller: the draft holds it
\* and the run went on to what follows the field
Returned(r, after, f, value) == after = Complete(r, f, value)

\* The field's question is asked again: nothing was returned, the draft is as
\* it was
FieldAskedAgain(r, after) ==
    after = [r EXCEPT !.pc = "ask", !.pending = NoPending]

\* What the confirmation is about: the entity or the members the resolver
\* would return, or the entity it would create
ProposedValue(r, g) ==
    CASE r.pending.kind = "use" -> Some(r.pending.id)
      [] r.pending.kind = "group" -> r.pending.members
      [] r.pending.kind = "create" -> Some(g.next[r.fld])

\* One reply to a field's question: the resolver returns nothing and creates
\* nothing (it asks again, asks for the confirmation, or the run ends), unless
\* the reply is the skip token of the substitutes
AskNeverReturns(r, g) ==
    \A m \in AskInputs(r.fld), e \in EnvsFor(r) :
        LET res == OnReply(r, g, m, e)
        IN  /\ res.guild = g
            /\ \/ res.run = r
               \/ res.run.pc = "done"
               \/ /\ res.run = [r EXCEPT !.pc = "confirm", !.pending = res.run.pending]
                  /\ res.run.pending.kind # "none"
               \/ /\ r.fld = "substitutes" /\ IsSkipToken(m)
                  /\ Returned(r, res.run, r.fld, <<>>)

\* One reply to a confirmation: yes returns the proposed value (creating the
\* entity first, or asking the field again when the platform refuses to), no
\* asks the field again, a cancellation token ends the run, anything else
\* leaves the run at the same confirmation
ConfirmDecides(r, g) ==
    \A m \in ConfirmInputs, e \in EnvsFor(r) :
        LET res == OnReply(r, g, m, e)
            answer == Lower(Strip(m.content))
            created == r.pending.kind = "create" /\ e.create = "ok"
        IN  /\ res.guild # g =>
                  /\ answer \in YES_KEYWORDS /\ created
                  /\ res.guild = CreateEntity(g, r.fld, r.pending.name, DraftCategory(r.draft))
            /\ IF answer \in YES_KEYWORDS
               THEN IF r.pending.kind = "create" /\ ~created
                    THEN FieldAskedAgain(r, res.run) /\ res.guild = g
                    ELSE /\ Returned(r, res.run, r.fld, ProposedValue(r, g))
                         /\ created <=> res.guild # g
               ELSE IF answer \in NO_KEYWORDS
               THEN FieldAskedAgain(r, res.run) /\ res.guild = g
               ELSE IF IsCancelToken(m.content)
               THEN res.run.pc = "done" /\ res.run.outcome = "cancelled"
               ELSE res.run = r

\* C26: the resolvers of role, category, channel, captain and the member
\* groups return a value, and create a role, category or channel, only on a
\* "yes"/"y" to the confirmation of that value; on "no"/"n" nothing is created
\* or returned and the field is asked again; any other reply (but the
\* cancellation token) leaves the confirmation pending.
C26_ValueOnlyAfterYes ==
    /\ [](\A p \in Operators :
            /\ run[p].pc = "ask" /\ run[p].fld \in ConfirmedFields =>
                  AskNeverReturns(run[p], guild)
            /\ run[p].pc = "confirm" =>
                  /\ run[p].fld \in ConfirmedFields
                  /\ run[p].pending.kind \in {"use", "group", "create"}
                  /\ run[p].pending.kind = "group" => run[p].pending.members # <<>>
                  /\ ConfirmDecides(run[p], guild))
    /\ [][guild' # guild =>
            \E p \in Operators : run[p].pc = "confirm" /\ run[p].pending.kind = "create"]_vars

\* The operator said yes to creating the role "n": it exists, the draft holds
\* it and the category is asked next
C26_Witness ==
    /\ run[1].pc = "ask" /\ run[1].fld = "category" /\ ~run[1].inReview
    /\ run[1].draft.role = Some(FreshIds.role)
    /\ \E ro \in guild.roles : ro.id = FreshIds.role /\ ro.name = <<"n">>

\* The draft, position and waits of the run: everything but the history of
\* what the run itself received
Progress(r) == [r EXCEPT !.gotExit = FALSE, !.timedOut = "none"]

\* C27: a message written by somebody else than the run's operator, or in
\* another channel, leaves the run exactly as it is: no draft field is filled
\* or changed, the run is not cancelled and its wait goes on; so does a
\* selection somebody else makes on the run's semester view. A message changes
\* at most the run of its author, so the runs of two operators never change
\* each other's draft.
C27_OnlyOwnInputAdvances ==
    \A p \in Operators :
        /\ \A ev \in MessageEvents :
              ev.author # p \/ ev.channel # "here" =>
                  Dispatch(run, guild, ev, [create |-> "ok", httpFail |-> {}]).runs[p]
                      = run[p]
        /\ \A user \in Operators, v \in SemesterOptions :
              user # p => OnSelect(run[p], p, user, v) = run[p]

\* Two runs wait in the same channel at different steps: one at the semester
\* selector, the other at the confirmation of its captain
C27_Witness ==
    /\ run[1].pc = "semester" /\ run[1].sem.view = "pending"
    /\ run[2].pc = "confirm" /\ run[2].fld = "captain"
    /\ run[1].draft.captain = Some(1)
    /\ run[2].draft.captain = None

\* C28: every committed team's captain has a team_members row of that team,
\* with status starter or sub, whatever was edited in review before the
\* confirm.
C28_CaptainHasMembership ==
    \A t \in store.teams :
        \E row \in store.team_members :
            /\ row.team_id = t.team_id
            /\ row.member = t.captain
            /\ row.status \in {"starter", "sub"}

\* The states in which a run waits for its operator
WaitPcs == {"ask", "confirm", "semester", "review"}

\* How a run that entered _finalize_team ends
FinalOutcomes == {"summary", "blocked_conflict", "blocked_insert", "failed"}

\* C29: a run left alone at a field prompt, a confirmation, the semester
\* selector or the review prompt is eventually over, cancelled by a timeout;
\* a run that received "confirm" in review is eventually over with the
\* summary, a block or a failure; a run that is over stays over with the one
\* outcome it has.
C29_EveryWaitEnds ==
    /\ \A p \in Operators :
          /\ (run[p].pc \in WaitPcs) ~> (run[p].pc = "done" /\ run[p].outcome = "cancelled")
          /\ (run[p].pc \in FinalizePcs) ~>
                (run[p].pc = "done" /\ run[p].outcome \in FinalOutcomes)
    /\ [][\A p \in Operators :
            run[p].pc = "done" =>
                run'[p].pc = "done" /\ run'[p].outcome = run[p].outcome]_vars

\* One run timed out at the review prompt, another sent its summary
C29_Witness ==
    /\ run[1].timedOut = "review" /\ run[1].outcome = "cancelled"
    /\ run[2].outcome = "summary"
====
